---------------------------- MODULE Spec2Model ----------------------------
(***************************************************************************)
(* Responsive playback of monochora: the frame manager with its frame      *)
(* cache (terminal_watcher.rs), the terminal watcher thread and its watch  *)
(* channel (terminal_watcher.rs), and the two playback loops (display.rs). *)
(***************************************************************************)
EXTENDS Integers, Sequences, FiniteSets, TLC

(***************************************************************************)
(* Bounds of the model.                                                    *)
(***************************************************************************)
\* source frames of the animation: 1..MaxFrames
MaxFrames == 2
\* the loop_count argument ranges over 0..MaxLoopCount
MaxLoopCount == 2
\* iterations of the playback loop the model follows when loop_count = 0
MaxIter == 2
\* terminal resizes by the environment
MaxResizes == 2
\* start_watching calls on one watcher
MaxThreads == 2
\* API calls followed on a frame manager driven from outside
MaxCalls == 4

\* source images are up to MaxSide pixels wide and high, and configured
\* widths and heights up to MaxSide cells
MaxSide == 3

\* a colour channel takes MaxLevel + 1 values spread over 0..255
MaxLevel == 3

(***************************************************************************)
(* Program constants.                                                      *)
(***************************************************************************)
\* regenerate_frames: current_dimensions.width.saturating_sub(2)
MarginW == 2
\* regenerate_frames: current_dimensions.height.saturating_sub(4)
MarginH == 4
\* usize::MAX, the iteration budget of loop_count = 0.  TLC's integers end at
\* 2^31 - 1, which stands for it; no run of the model counts that far.
UsizeMax == 2147483647

(***************************************************************************)
(* Values.                                                                 *)
(***************************************************************************)
\* Option<T>: None, Some(x)
None == <<>>

Some(x) == <<x>>

\* TerminalDimensions { width, height }
TerminalDimensions(w, h) == [width |-> w, height |-> h]

\* The terminal sizes the environment takes: one too narrow (width below the
\* margin, so the subtraction saturates), one whose height equals the margin,
\* and two that leave room for a picture.
DimsSet ==
  { TerminalDimensions(1, 6), TerminalDimensions(4, 4),
    TerminalDimensions(4, 6), TerminalDimensions(5, 7) }

\* The sizes the terminal takes while a watcher runs.
TermSizes ==
  { TerminalDimensions(1, 6), TerminalDimensions(4, 6),
    TerminalDimensions(5, 7) }

\* u32::saturating_sub
saturating_sub(a, b) == IF a >= b THEN a - b ELSE 0

VARIABLES
  fm,       \* the ResponsiveFrameManager
  call,     \* the last call made on it from outside, with its result
  ncalls,   \* calls made so far
  term,     \* the terminal's size (what crossterm's size() reads)
  resizes,  \* resizes of the terminal so far
  chan,     \* the watch channel of TerminalDimensions and its receivers
  watcher,  \* the TerminalWatcher: alive, stop_tx
  thr,      \* the polling threads, each with its stop channel
  args,     \* what the playback was started with
  pc,       \* where the main task is
  current_iteration, frame_idx, frames, \* the playback loop's locals
  cursor,   \* the terminal's cursor: "visible" or "hidden"
  result,   \* what the playback function returned
  painted,  \* the frame painted last, if any
  hist,     \* what was published, stopped, read and keyed so far
  eval,     \* the library function under evaluation: its input and result
  gif,      \* a run of ascii_frames_to_gif_with_dimensions
  conv      \* a run of process_ascii_conversion

fmvars == <<fm, call, ncalls>>

envvars == <<term, resizes>>

watchvars == <<chan, watcher, thr>>

dispvars ==
  <<args, pc, current_iteration, frame_idx, frames, cursor, result,
    painted>>

libvars == <<eval, gif, conv>>

vars ==
  <<fm, call, ncalls, term, resizes, chan, watcher, thr, args, pc,
    current_iteration, frame_idx, frames, cursor, result, painted,
    hist, eval, gif, conv>>

(***************************************************************************)
(* ResponsiveFrameManager.  config_template stands for what the rasterizer *)
(* makes of the template and the source frames: "valid" when               *)
(* image_to_ascii / image_to_colored_ascii accept them, "invalid" when     *)
(* they return an error.  A rendered frame list is written as the (width,  *)
(* height) the rasterizer was given for it.                                *)
(***************************************************************************)
ResponsiveFrameManager_new(config_template, initial_dimensions) ==
  [ config_template    |-> config_template,
    current_dimensions |-> initial_dimensions,
    cached_frames      |-> None ]

\* update_dimensions that clears the cache on every call
update_dimensions_always_clears(m, new_dimensions) ==
  [ fm  |-> [m EXCEPT !.current_dimensions = new_dimensions,
                      !.cached_frames = None],
    ret |-> new_dimensions # m.current_dimensions ]

\* update_dimensions that keeps the cache across a change
update_dimensions_keeps_cache(m, new_dimensions) ==
  IF new_dimensions # m.current_dimensions
    THEN [ fm  |-> [m EXCEPT !.current_dimensions = new_dimensions],
           ret |-> TRUE ]
    ELSE [ fm |-> m, ret |-> FALSE ]

update_dimensions(m, new_dimensions) ==
  IF new_dimensions # m.current_dimensions
    THEN [ fm  |-> [m EXCEPT !.current_dimensions = new_dimensions,
                             !.cached_frames = None],
           ret |-> TRUE ]
    ELSE [ fm |-> m, ret |-> FALSE ]

\* regenerate_frames with a wrapping subtraction and no size check
regenerate_frames_unchecked(m) ==
  IF m.config_template # "valid"
    THEN [ fm |-> m, err |-> "Render", rendered |-> 0 ]
    ELSE [ fm |-> [m EXCEPT !.cached_frames =
                     Some(TerminalDimensions(
                       saturating_sub(m.current_dimensions.width, MarginW),
                       saturating_sub(m.current_dimensions.height, MarginH)))],
           err |-> "none", rendered |-> 1 ]

\* err: "none", "Terminal" (terminal too small) or "Render" (the rasterizer's
\* error); rendered: the frame lists this call rendered and cached.
regenerate_frames(m) ==
  LET target_width  == saturating_sub(m.current_dimensions.width, MarginW)
      target_height == saturating_sub(m.current_dimensions.height, MarginH)
  IN  IF target_width = 0 \/ target_height = 0
        THEN [ fm |-> m, err |-> "Terminal", rendered |-> 0 ]
      ELSE IF m.config_template # "valid"
        THEN [ fm |-> m, err |-> "Render", rendered |-> 0 ]
      ELSE [ fm |-> [m EXCEPT !.cached_frames =
                       Some(TerminalDimensions(target_width, target_height))],
             err |-> "none", rendered |-> 1 ]

\* get_frames that renders on every call
get_frames_always_regenerates(m) ==
  LET r == regenerate_frames(m)
  IN  IF r.err # "none"
        THEN [ fm |-> r.fm, err |-> r.err, frames |-> None,
               rendered |-> r.rendered ]
        ELSE [ fm |-> r.fm, err |-> "none", frames |-> r.fm.cached_frames,
               rendered |-> r.rendered ]

get_frames(m) ==
  IF m.cached_frames = None
    THEN LET r == regenerate_frames(m)
         IN  IF r.err # "none"
               THEN [ fm |-> r.fm, err |-> r.err, frames |-> None,
                      rendered |-> r.rendered ]
               ELSE [ fm |-> r.fm, err |-> "none",
                      frames |-> r.fm.cached_frames, rendered |-> r.rendered ]
    ELSE [ fm |-> m, err |-> "none", frames |-> m.cached_frames,
           rendered |-> 0 ]

\* no call made yet
NoCall ==
  [ op |-> "new", arg |-> TerminalDimensions(0, 0), before |-> None,
    ret |-> FALSE, err |-> "none", frames |-> None, rendered |-> 0,
    regens |-> 0, same_twice |-> FALSE, after_small |-> FALSE,
    discarded |-> FALSE ]

\* nothing published, stopped or read yet
NoHist ==
  [ published   |-> TerminalDimensions(0, 0),  \* the value sent last
    unseen      |-> 0,      \* sends since the loop's receiver last took a change
    taken       |-> 0,      \* sends the change taken last stood for
    read        |-> None,   \* the borrow the loop just made: value, latest
                            \* sent, taken
    stop_called |-> {},     \* threads whose stop channel a stop() was given
    hidden      |-> FALSE,  \* the playback hid the cursor
    quit_read   |-> FALSE,  \* a quit key was read
    pause_read  |-> FALSE,  \* the key poll just made read a pause key
    exit_by     |-> "none", \* how the loop was left: "budget" or "quit"
    resize_seen |-> FALSE,  \* the loop took a change from the channel
    in_order    |-> TRUE,   \* each frame painted so far was the one next in
                            \* sequence after the frame painted before it
    resumed     |-> None ]  \* the iteration a resize restarted, until painted

\* the playback loop moves on: what it just read is history
Moved(h) == [h EXCEPT !.read = None, !.pause_read = FALSE]

\* the playback not started
IdleArgs ==
  [ mode |-> "none", loop_count |-> 0, frames |-> 0, frame_delays |-> 0,
    config |-> "valid" ]

IdleDisplay ==
  /\ args = IdleArgs
  /\ pc = "idle"
  /\ current_iteration = 0
  /\ frame_idx = 0
  /\ frames = None
  /\ cursor = "visible"
  /\ result = "none"
  /\ painted = None

\* no library function under evaluation, no GIF being written, no conversion
\* running
NoEval == [ fn |-> "none" ]

IdleLib ==
  /\ eval = NoEval
  /\ gif = [ pc |-> "idle" ]
  /\ conv = [ pc |-> "idle" ]

\* a frame manager nothing uses
IdleFM ==
  ResponsiveFrameManager_new("valid", TerminalDimensions(0, 0))

(***************************************************************************)
(* tokio::sync::watch as the program uses it: one slot holding the latest  *)
(* value, a version counted up by every send, and per receiver the version *)
(* it has seen.  The watcher keeps one receiver (dimensions_rx) and never  *)
(* reads it; rx_version and rx_alive are those of the clone handed to the  *)
(* playback loop.                                                          *)
(***************************************************************************)
watch_channel(initial_dims) ==
  [ value |-> initial_dims, version |-> 0,
    rx_alive |-> FALSE, rx_version |-> 0 ]

\* receivers of the channel: dimensions_rx while the watcher lives, and the
\* playback loop's clone
watch_receivers(ch, w) ==
  (IF w.alive THEN 1 ELSE 0) + (IF ch.rx_alive THEN 1 ELSE 0)

\* a send that does not replace a value no receiver has taken yet
watch_send_keeps_unseen(ch, v, w) ==
  IF watch_receivers(ch, w) = 0
    THEN [ ok |-> FALSE, chan |-> ch ]
  ELSE IF ch.version # ch.rx_version
    THEN [ ok |-> TRUE, chan |-> [ch EXCEPT !.version = @ + 1] ]
  ELSE [ ok |-> TRUE, chan |-> [ch EXCEPT !.value = v, !.version = @ + 1] ]

\* Sender::send: fails when no receiver is left, else replaces the value
watch_send(ch, v, w) ==
  IF watch_receivers(ch, w) = 0
    THEN [ ok |-> FALSE, chan |-> ch ]
    ELSE [ ok |-> TRUE, chan |-> [ch EXCEPT !.value = v, !.version = @ + 1] ]

\* Receiver::changed is ready when the version moved past the one seen ...
watch_changed_ready(ch) == ch.version # ch.rx_version

\* ... and completing it marks the current version seen
watch_changed(ch) == [ch EXCEPT !.rx_version = ch.version]

\* Receiver::borrow: the value now in the slot; marks nothing seen
watch_borrow(ch) == ch.value

\* TerminalWatcher::get_receiver: a clone of dimensions_rx, which has seen
\* the initial version only
get_receiver(ch) == [ch EXCEPT !.rx_alive = TRUE, !.rx_version = 0]

(***************************************************************************)
(* TerminalWatcher and its polling threads.  A thread is                   *)
(*   pc: "unborn", "init" (before its first size read), "check_stop"       *)
(*       (loop head, stop_rx.try_recv), "poll" (size read, compare, send), *)
(*       "read_failed" (returned from the Err arm of its first size read), *)
(*       "done" (broke out of its loop);                                   *)
(*   last_dimensions;                                                      *)
(*   stop_queue, stop_sender: the messages in its mpsc stop channel and    *)
(*       whether the channel's Sender still exists.                        *)
(***************************************************************************)
Threads == 1..MaxThreads

Unborn ==
  [ pc |-> "unborn", last_dimensions |-> TerminalDimensions(0, 0),
    stop_queue |-> 0, stop_sender |-> FALSE ]

\* the thread's closure has returned
Ended(t) == t.pc \in {"done", "read_failed"}

\* the thread broke out of its loop: its locals, last_dimensions and stop_rx
\* with what was queued in it, are dropped
Broke(t) == [t EXCEPT !.pc = "done",
                      !.last_dimensions = TerminalDimensions(0, 0),
                      !.stop_queue = 0]

\* TerminalWatcher::new, given the size it read
TerminalWatcher_new == [ alive |-> TRUE, stop_tx |-> None ]

\* the threads spawned so far
Born(t) == { k \in Threads : t[k].pc # "unborn" }

\* start_watching: a new stop channel, a new thread, and stop_tx replaced
\* (the Sender it held before is dropped, nothing is sent on it)
start_watching(w, t) ==
  LET k == Cardinality(Born(t)) + 1
      dropped == IF w.stop_tx = None THEN t
                 ELSE [t EXCEPT ![w.stop_tx[1]].stop_sender = FALSE]
  IN  [ watcher |-> [w EXCEPT !.stop_tx = Some(k)],
        thr     |-> [dropped EXCEPT ![k] =
                       [Unborn EXCEPT !.pc = "init", !.stop_sender = TRUE]] ]

\* stop that drops the Sender without sending
stop_without_send(w, t) ==
  IF w.stop_tx = None
    THEN [ watcher |-> w, thr |-> t ]
    ELSE [ watcher |-> [w EXCEPT !.stop_tx = None],
           thr     |-> [t EXCEPT ![w.stop_tx[1]].stop_sender = FALSE] ]

\* stop: take stop_tx, send () on it (the result is ignored), drop it
stop(w, t) ==
  IF w.stop_tx = None
    THEN [ watcher |-> w, thr |-> t ]
    ELSE LET k == w.stop_tx[1]
         IN  [ watcher |-> [w EXCEPT !.stop_tx = None],
               thr     |-> [t EXCEPT
                              ![k].stop_queue =
                                 IF Ended(t[k]) THEN @ ELSE @ + 1,
                              ![k].stop_sender = FALSE] ]

\* Drop for TerminalWatcher: stop(), then the fields go (dimensions_tx,
\* dimensions_rx, stop_tx)
drop(w, t) ==
  LET r == stop(w, t)
  IN  [ watcher |-> [r.watcher EXCEPT !.alive = FALSE], thr |-> r.thr ]

\* TerminalDimensions::current: Ok(the size now) or Err
SizeReads == { [ok |-> TRUE, dims |-> term], [ok |-> FALSE, dims |-> term] }

\* thread start: the first size read; Err => return
ThreadInit(k) ==
  /\ thr[k].pc = "init"
  /\ \E r \in SizeReads :
       thr' = [thr EXCEPT
                 ![k].last_dimensions = IF r.ok THEN r.dims ELSE @,
                 ![k].pc = IF r.ok THEN "check_stop" ELSE "read_failed"]
  /\ UNCHANGED <<fm, call, ncalls, libvars, term, resizes, chan, watcher, hist,
                 dispvars>>

\* loop head: stop_rx.try_recv().is_ok() => break.  An empty channel and a
\* disconnected one both answer Err.
ThreadCheckStop(k) ==
  /\ thr[k].pc = "check_stop"
  /\ thr' = IF thr[k].stop_queue > 0
              THEN [thr EXCEPT ![k] = Broke(@)]
              ELSE [thr EXCEPT ![k].pc = "poll"]
  /\ UNCHANGED <<fm, call, ncalls, libvars, term, resizes, chan, watcher, hist,
                 dispvars>>

\* the poll: read the size; on a change send it (a failed send ends the
\* thread) and remember it; then sleep and go round
ThreadPoll(k) ==
  /\ thr[k].pc = "poll"
  /\ \E r \in SizeReads :
       IF ~r.ok
         THEN /\ thr' = [thr EXCEPT ![k].pc = "check_stop"]
              /\ UNCHANGED <<chan, hist>>
       ELSE IF r.dims # thr[k].last_dimensions
         THEN LET s == watch_send(chan, r.dims, watcher)
              IN  IF ~s.ok
                    THEN /\ thr' = [thr EXCEPT ![k] = Broke(@)]
                         /\ UNCHANGED <<chan, hist>>
                    ELSE /\ chan' = s.chan
                         /\ thr' = [thr EXCEPT
                                               ![k].last_dimensions = r.dims,
                                               ![k].pc = "check_stop"]
                         /\ hist' = [hist EXCEPT !.published = r.dims,
                                                 !.unseen = @ + 1]
       ELSE /\ thr' = [thr EXCEPT ![k].pc = "check_stop"]
            /\ UNCHANGED <<chan, hist>>
  /\ UNCHANGED <<fm, call, ncalls, libvars, term, resizes, watcher, dispvars>>

ThreadStep(k) ==
  \/ ThreadInit(k)
  \/ ThreadCheckStop(k)
  \/ ThreadPoll(k)

\* the user resizes the terminal, while the program runs
EnvResize ==
  /\ pc # "finished"
  /\ resizes < MaxResizes
  /\ \E d \in TermSizes \ {term} : term' = d
  /\ resizes' = resizes + 1
  /\ UNCHANGED <<fm, call, ncalls, libvars,
                 chan, watcher, thr, hist, dispvars>>

(***************************************************************************)
(* A TerminalWatcher driven from outside: start_watching, stop and drop in *)
(* any order, while the terminal is resized and the threads poll.          *)
(***************************************************************************)
InitWatcher ==
  /\ term \in TermSizes
  /\ resizes = 0
  /\ chan = watch_channel(term)
  /\ watcher = TerminalWatcher_new
  /\ thr = [k \in Threads |-> Unborn]
  /\ hist = [NoHist EXCEPT !.published = term]
  /\ fm = IdleFM
  /\ call = NoCall
  /\ ncalls = 0
  /\ IdleLib
  /\ IdleDisplay

StartWatching ==
  /\ watcher.alive
  /\ Cardinality(Born(thr)) < MaxThreads
  /\ LET r == start_watching(watcher, thr)
     IN  /\ watcher' = r.watcher
         /\ thr' = r.thr
  /\ UNCHANGED <<fm, call, ncalls, libvars,
                 term, resizes, chan, hist, dispvars>>

Stop ==
  /\ watcher.alive
  /\ LET r == stop(watcher, thr)
     IN  /\ watcher' = r.watcher
         /\ thr' = r.thr
  /\ hist' = [hist EXCEPT !.stop_called =
                IF watcher.stop_tx = None THEN @
                ELSE @ \cup {watcher.stop_tx[1]}]
  /\ UNCHANGED <<fm, call, ncalls, libvars, term, resizes, chan, dispvars>>

Drop ==
  /\ watcher.alive
  /\ LET r == drop(watcher, thr)
     IN  /\ watcher' = r.watcher
         /\ thr' = r.thr
  /\ hist' = [hist EXCEPT !.stop_called =
                IF watcher.stop_tx = None THEN @
                ELSE @ \cup {watcher.stop_tx[1]}]
  /\ UNCHANGED <<fm, call, ncalls, libvars, term, resizes, chan, dispvars>>

NextWatcher ==
  \/ StartWatching
  \/ Stop
  \/ Drop
  \/ EnvResize
  \/ \E k \in Threads : ThreadStep(k)

SpecWatcher == InitWatcher /\ [][NextWatcher]_vars

\* The operating system schedules every thread that can run, and its sleep
\* of 100 ms ends.
FairSpecWatcher ==
  SpecWatcher /\ \A k \in Threads : WF_vars(ThreadStep(k))

(***************************************************************************)
(* A frame manager driven from outside by any sequence of                  *)
(* update_dimensions and get_frames calls.  call records the call, the     *)
(* manager before it, its result, and what went before: the frame lists    *)
(* rendered since the dimensions last changed (regens), whether the        *)
(* update before this one carried the same dimensions (same_twice),        *)
(* whether an earlier get_frames failed with "terminal too small"          *)
(* (after_small), and whether a rendered frame list was dropped by a       *)
(* change of dimensions (discarded).  arg is the argument of the last      *)
(* update_dimensions.                                                      *)
(***************************************************************************)
InitFM ==
  /\ \E t \in {"valid", "invalid"}, d \in DimsSet :
       fm = ResponsiveFrameManager_new(t, d)
  /\ call = NoCall
  /\ ncalls = 0
  /\ IdleLib
  /\ term = TerminalDimensions(0, 0)
  /\ resizes = 0
  /\ chan = watch_channel(term)
  /\ watcher = [TerminalWatcher_new EXCEPT !.alive = FALSE]
  /\ thr = [k \in Threads |-> Unborn]
  /\ hist = NoHist
  /\ IdleDisplay

CallUpdateDimensions ==
  /\ ncalls < MaxCalls
  /\ \E d \in DimsSet :
       LET r == update_dimensions(fm, d)
       IN  /\ fm' = r.fm
           /\ call' = [ call EXCEPT
                          !.op = "update_dimensions", !.arg = d,
                          !.before = Some(fm), !.ret = r.ret,
                          !.err = "none", !.frames = None, !.rendered = 0,
                          !.regens = IF d # fm.current_dimensions
                                       THEN 0 ELSE @,
                          !.same_twice = (call.arg = d),
                          !.discarded = (@ \/ (d # fm.current_dimensions
                                               /\ fm.cached_frames # None)) ]
  /\ ncalls' = ncalls + 1
  /\ UNCHANGED <<term, resizes, chan, watcher, thr, hist, dispvars, libvars>>

CallGetFrames ==
  /\ ncalls < MaxCalls
  /\ LET r == get_frames(fm)
     IN  /\ fm' = r.fm
         /\ call' = [ call EXCEPT
                        !.op = "get_frames",
                        !.before = Some(fm), !.ret = (r.err = "none"),
                        !.err = r.err, !.frames = r.frames,
                        !.rendered = r.rendered,
                        !.regens = @ + r.rendered,
                        !.same_twice = FALSE,
                        !.after_small = (@ \/ r.err = "Terminal") ]
  /\ ncalls' = ncalls + 1
  /\ UNCHANGED <<term, resizes, chan, watcher, thr, hist, dispvars, libvars>>

NextFM ==
  \/ CallUpdateDimensions
  \/ CallGetFrames

SpecFM == InitFM /\ [][NextFM]_vars

(***************************************************************************)
(* The program's terminal playback (main.rs): handle_terminal_display      *)
(* plays fixed frames with display_ascii_animation (mode "plain");         *)
(* handle_responsive_terminal_display with --watch-terminal builds the     *)
(* frame manager and the watcher and plays with                            *)
(* display_responsive_ascii_animation (mode "responsive").                 *)
(*                                                                         *)
(* args: mode, loop_count, frames (how many source frames), frame_delays   *)
(* (how many delays), config (as in fm.config_template).                   *)
(* pc: "main", "watcher_new", "start_watching" (start-up of the responsive *)
(* handler); "r_hide", "r_outer" (head of the while loop), "r_for" (head   *)
(* of the for loop, the select!), "r_borrow" (the resize branch, after     *)
(* changed()), "r_poll" (the timer branch, after the paint), "r_exit";     *)
(* "p_validate", "p_hide", "p_outer", "p_frame", "p_poll", "p_paused"      *)
(* (the blocking read() after a pause key), "p_exit"; "returned" (the      *)
(* playback function is left), "finished".                                 *)
(* result: "none", "Ok", "Err", or "panic".                                *)
(***************************************************************************)
\* a terminal operation (execute!, writeln!, flush, poll) succeeds or fails
IoResults == {"ok", "err"}

\* what the key poll finds: nothing pending, a quit key (Esc, q, Q), a pause
\* key (p, P), any other key, or a failing poll
PollEvents == {"none", "quit", "pause", "other", "poll_err"}

\* the fixed frames the plain playback is given
StaticFrames == Some(TerminalDimensions(0, 0))

\* iterations that takes loop_count as it is
iterations_without_forever(loop_count) == loop_count

\* let iterations = if loop_count == 0 { usize::MAX } else { loop_count }
iterations(loop_count) == IF loop_count = 0 THEN UsizeMax ELSE loop_count

\* a resize branch that never restarts the iteration
resize_branch_falls_through(changed, idx) ==
  [ pc |-> "r_for", frame_idx |-> idx + 1 ]

\* the resize branch of the select!: continue 'outer when update_dimensions
\* answered true, else on to the next frame of the for loop
resize_branch(changed, idx) ==
  IF changed
    THEN [ pc |-> "r_outer", frame_idx |-> idx ]
    ELSE [ pc |-> "r_for", frame_idx |-> idx + 1 ]

\* one painted frame: the iteration and index it has, the frame list it is
\* from, the manager's dimensions as it is painted, whether a quit key had
\* been read, and the iteration a resize restarted just before
Painted(dims) ==
  [ iter |-> current_iteration, idx |-> frame_idx, frames |-> frames,
    dims |-> dims, after_quit |-> hist.quit_read, resumed |-> hist.resumed ]

\* the frame about to be painted is the one next in sequence after the frame
\* painted last: the first frame of all, the next frame of the same
\* iteration, or the first frame of the next iteration after the last frame
InSequence ==
  IF painted = None
    THEN current_iteration = 0 /\ frame_idx = 0
    ELSE \/ /\ current_iteration = painted[1].iter
            /\ frame_idx = painted[1].idx + 1
         \/ /\ current_iteration = painted[1].iter + 1
            /\ frame_idx = 0
            /\ painted[1].idx = args.frames - 1

InitMain ==
  /\ term \in TermSizes
  /\ resizes = 0
  /\ args \in [ mode : {"plain", "responsive"}, loop_count : 0..MaxLoopCount,
                frames : 1..MaxFrames, frame_delays : 0..MaxFrames,
                config : {"valid", "invalid"} ]
  /\ pc = IF args.mode = "plain" THEN "p_validate" ELSE "main"
  /\ fm = IdleFM
  /\ call = NoCall
  /\ ncalls = 0
  /\ IdleLib
  /\ chan = watch_channel(TerminalDimensions(0, 0))
  /\ watcher = [TerminalWatcher_new EXCEPT !.alive = FALSE]
  /\ thr = [k \in Threads |-> Unborn]
  /\ current_iteration = 0
  /\ frame_idx = 0
  /\ frames = IF args.mode = "plain" THEN StaticFrames ELSE None
  /\ cursor = "visible"
  /\ result = "none"
  /\ painted = None
  /\ hist = NoHist

\* handle_responsive_terminal_display: TerminalDimensions::current()?, then
\* ResponsiveFrameManager::new
MainDims ==
  /\ pc = "main"
  /\ \E r \in SizeReads :
       IF r.ok
         THEN /\ fm' = ResponsiveFrameManager_new(args.config, r.dims)
              /\ pc' = "watcher_new"
              /\ UNCHANGED result
         ELSE /\ pc' = "finished"
              /\ result' = "Err"
              /\ UNCHANGED fm
  /\ UNCHANGED <<call, ncalls, libvars,
                 term, resizes, chan, watcher, thr, args,
                 current_iteration, frame_idx, frames, cursor,
                 painted, hist>>

\* TerminalWatcher::new()?
MainWatcherNew ==
  /\ pc = "watcher_new"
  /\ \E r \in SizeReads :
       IF r.ok
         THEN /\ chan' = watch_channel(r.dims)
              /\ watcher' = TerminalWatcher_new
              /\ hist' = [hist EXCEPT !.published = r.dims]
              /\ pc' = "start_watching"
              /\ UNCHANGED result
         ELSE /\ pc' = "finished"
              /\ result' = "Err"
              /\ UNCHANGED <<chan, watcher, hist>>
  /\ UNCHANGED <<fm, call, ncalls, libvars, term, resizes, thr, args,
                 current_iteration, frame_idx, frames, cursor,
                 painted>>

\* watcher.start_watching()?; watcher.get_receiver()
MainStartWatching ==
  /\ pc = "start_watching"
  /\ LET r == start_watching(watcher, thr)
     IN  /\ watcher' = r.watcher
         /\ thr' = r.thr
  /\ chan' = get_receiver(chan)
  /\ pc' = "r_hide"
  /\ UNCHANGED <<fm, call, ncalls, libvars,
                 term, resizes, args, current_iteration,
                 frame_idx, frames, cursor, result, painted, hist>>

(***************************************************************************)
(* display_responsive_ascii_animation.  Leaving the function drops         *)
(* resize_rx, the receiver it was given.                                   *)
(***************************************************************************)
\* execute!(stdout, Hide)?
RHide ==
  /\ pc = "r_hide"
  /\ \E io \in IoResults :
       IF io = "ok"
         THEN /\ cursor' = "hidden"
              /\ hist' = [hist EXCEPT !.hidden = TRUE]
              /\ pc' = "r_outer"
              /\ UNCHANGED <<result, chan>>
         ELSE /\ pc' = "returned"
              /\ result' = "Err"
              /\ chan' = [chan EXCEPT !.rx_alive = FALSE]
              /\ UNCHANGED <<cursor, hist>>
  /\ current_iteration' = 0
  /\ UNCHANGED <<fm, call, ncalls, libvars, term, resizes, watcher, thr, args,
                 frame_idx, frames, painted>>

\* 'outer: while current_iteration < iterations { get_frames()?.to_vec() ...
ROuter ==
  /\ pc = "r_outer"
  /\ args.loop_count # 0 \/ current_iteration < MaxIter
  /\ IF current_iteration < iterations(args.loop_count)
       THEN LET r == get_frames(fm)
            IN  /\ fm' = r.fm
                /\ IF r.err = "none"
                     THEN /\ frames' = r.frames
                          /\ frame_idx' = 0
                          /\ pc' = "r_for"
                          /\ UNCHANGED <<result, chan>>
                     ELSE /\ pc' = "returned"
                          /\ result' = "Err"
                          /\ chan' = [chan EXCEPT !.rx_alive = FALSE]
                          /\ UNCHANGED <<frames, frame_idx>>
                /\ hist' = Moved(hist)
       ELSE /\ pc' = "r_exit"
            /\ hist' = [Moved(hist) EXCEPT !.exit_by = "budget"]
            /\ UNCHANGED <<fm, frames, frame_idx, result, chan>>
  /\ UNCHANGED <<call, ncalls, libvars, term, resizes, watcher, thr, args,
                 current_iteration, cursor, painted>>

\* the for loop is through: current_iteration += 1
RNextIteration ==
  /\ pc = "r_for"
  /\ frame_idx >= args.frames
  /\ current_iteration' = current_iteration + 1
  /\ pc' = "r_outer"
  /\ hist' = Moved(hist)
  /\ UNCHANGED <<fm, call, ncalls, libvars,
                 term, resizes, chan, watcher, thr, args,
                 frame_idx, frames, cursor, result, painted>>

\* select! builds sleep(delays[frame_idx]) first: an index past the delays
\* panics
RDelayPanic ==
  /\ pc = "r_for"
  /\ frame_idx < args.frames
  /\ frame_idx >= args.frame_delays
  /\ pc' = "returned"
  /\ result' = "panic"
  /\ chan' = [chan EXCEPT !.rx_alive = FALSE]
  /\ hist' = Moved(hist)
  /\ UNCHANGED <<fm, call, ncalls, libvars, term, resizes, watcher, thr, args,
                 current_iteration, frame_idx, frames, cursor,
                 painted>>

\* select!: resize_rx.changed() completes
RResizeBranch ==
  /\ pc = "r_for"
  /\ frame_idx < args.frames
  /\ frame_idx < args.frame_delays
  /\ watch_changed_ready(chan)
  /\ chan' = watch_changed(chan)
  /\ hist' = [Moved(hist) EXCEPT !.taken = hist.unseen, !.unseen = 0,
                          !.resize_seen = TRUE]
  /\ pc' = "r_borrow"
  /\ UNCHANGED <<fm, call, ncalls, libvars, term, resizes, watcher, thr, args,
                 current_iteration, frame_idx, frames, cursor,
                 result, painted>>

\* let new_dims = *resize_rx.borrow();
\* if frame_manager.update_dimensions(new_dims) { continue 'outer; }
RBorrow ==
  /\ pc = "r_borrow"
  /\ LET new_dims == watch_borrow(chan)
         r == update_dimensions(fm, new_dims)
         n == resize_branch(r.ret, frame_idx)
     IN  /\ fm' = r.fm
         /\ pc' = n.pc
         /\ frame_idx' = n.frame_idx
         /\ hist' = [hist EXCEPT
                       !.read = Some([ value |-> new_dims,
                                       latest |-> hist.published,
                                       taken |-> hist.taken ]),
                       !.taken = 0,
                       !.resumed = IF new_dims # fm.current_dimensions
                                     THEN Some(current_iteration)
                                     ELSE None]
  /\ UNCHANGED <<call, ncalls, libvars,
                 term, resizes, chan, watcher, thr, args,
                 current_iteration, frames, cursor, result, painted>>

\* select!: the sleep completes; clear the screen, write the frame's lines,
\* flush, each with ?
RPaint ==
  /\ pc = "r_for"
  /\ frame_idx < args.frames
  /\ frame_idx < args.frame_delays
  /\ \E io \in IoResults :
       IF io = "ok"
         THEN /\ painted' = Some(Painted(fm.current_dimensions))
              /\ hist' = [Moved(hist) EXCEPT
                            !.resumed = None,
                            !.in_order = (@ /\ InSequence)]
              /\ pc' = "r_poll"
              /\ UNCHANGED <<result, chan>>
         ELSE /\ pc' = "returned"
              /\ result' = "Err"
              /\ chan' = [chan EXCEPT !.rx_alive = FALSE]
              /\ hist' = Moved(hist)
              /\ UNCHANGED painted
  /\ UNCHANGED <<fm, call, ncalls, libvars, term, resizes, watcher, thr, args,
                 current_iteration, frame_idx, frames, cursor>>

\* if poll(0)? { if let Ok(Event::Key(key)) = read() { quit => break 'outer,
\* _ => {} } }
RPoll ==
  /\ pc = "r_poll"
  /\ \E ev \in PollEvents :
       /\ hist' = [hist EXCEPT
                     !.pause_read = (ev = "pause"),
                     !.quit_read = (@ \/ ev = "quit"),
                     !.exit_by = IF ev = "quit" THEN "quit" ELSE @]
       /\ CASE ev = "poll_err" ->
                 /\ pc' = "returned"
                 /\ result' = "Err"
                 /\ chan' = [chan EXCEPT !.rx_alive = FALSE]
                 /\ UNCHANGED frame_idx
            [] ev = "quit" ->
                 /\ pc' = "r_exit"
                 /\ UNCHANGED <<result, chan, frame_idx>>
            [] OTHER ->
                 /\ pc' = "r_for"
                 /\ frame_idx' = frame_idx + 1
                 /\ UNCHANGED <<result, chan>>
  /\ UNCHANGED <<fm, call, ncalls, libvars, term, resizes, watcher, thr, args,
                 current_iteration, frames, cursor, painted>>

\* execute!(stdout, Show, Clear(All), MoveTo(0, 0))?; Ok(())
RExit ==
  /\ pc = "r_exit"
  /\ \E io \in IoResults :
       IF io = "ok"
         THEN /\ cursor' = "visible"
              /\ result' = "Ok"
         ELSE /\ cursor' \in {"hidden", "visible"}
              /\ result' = "Err"
  /\ pc' = "returned"
  /\ chan' = [chan EXCEPT !.rx_alive = FALSE]
  /\ UNCHANGED <<fm, call, ncalls, libvars, term, resizes, watcher, thr, args,
                 current_iteration, frame_idx, frames, painted,
                 hist>>

\* handle_responsive_terminal_display is left, by return or by unwinding:
\* watcher is dropped
MainDropWatcher ==
  /\ pc = "returned"
  /\ args.mode = "responsive"
  /\ LET r == drop(watcher, thr)
     IN  /\ watcher' = r.watcher
         /\ thr' = r.thr
  /\ hist' = [hist EXCEPT !.stop_called =
                IF watcher.stop_tx = None THEN @
                ELSE @ \cup {watcher.stop_tx[1]}]
  /\ pc' = "finished"
  /\ UNCHANGED <<fm, call, ncalls, libvars, term, resizes, chan, args,
                 current_iteration, frame_idx, frames, cursor,
                 result, painted>>

(***************************************************************************)
(* display_ascii_animation(frames, frame_delays, loop_count, true).        *)
(***************************************************************************)
\* validate_animation_input(frames, frame_delays, loop_count)?
PValidate ==
  /\ pc = "p_validate"
  /\ IF args.frames = 0 \/ args.frame_delays = 0
       THEN /\ pc' = "returned"
            /\ result' = "Err"
       ELSE /\ pc' = "p_hide"
            /\ UNCHANGED result
  /\ UNCHANGED <<fm, call, ncalls, libvars,
                 term, resizes, chan, watcher, thr, args,
                 current_iteration, frame_idx, frames, cursor,
                 painted, hist>>

\* execute!(stdout, Hide).map_err(..)?
PHide ==
  /\ pc = "p_hide"
  /\ \E io \in IoResults :
       IF io = "ok"
         THEN /\ cursor' = "hidden"
              /\ hist' = [hist EXCEPT !.hidden = TRUE]
              /\ pc' = "p_outer"
              /\ UNCHANGED result
         ELSE /\ pc' = "returned"
              /\ result' = "Err"
              /\ UNCHANGED <<cursor, hist>>
  /\ current_iteration' = 0
  /\ UNCHANGED <<fm, call, ncalls, libvars,
                 term, resizes, chan, watcher, thr, args,
                 frame_idx, frames, painted>>

\* 'outer: while current_iteration < iterations { for (frame_idx, frame) ...
POuter ==
  /\ pc = "p_outer"
  /\ args.loop_count # 0 \/ current_iteration < MaxIter
  /\ IF current_iteration < iterations(args.loop_count)
       THEN /\ frame_idx' = 0
            /\ pc' = "p_frame"
            /\ hist' = Moved(hist)
       ELSE /\ pc' = "p_exit"
            /\ hist' = [Moved(hist) EXCEPT !.exit_by = "budget"]
            /\ UNCHANGED frame_idx
  /\ UNCHANGED <<fm, call, ncalls, libvars,
                 term, resizes, chan, watcher, thr, args,
                 current_iteration, frames, cursor, result, painted>>

\* the for loop is through: current_iteration += 1 (and a sleep of 50 ms
\* when another iteration follows)
PNextIteration ==
  /\ pc = "p_frame"
  /\ frame_idx >= args.frames
  /\ current_iteration' = current_iteration + 1
  /\ pc' = "p_outer"
  /\ hist' = Moved(hist)
  /\ UNCHANGED <<fm, call, ncalls, libvars,
                 term, resizes, chan, watcher, thr, args,
                 frame_idx, frames, cursor, result, painted>>

\* clear the screen (?), write the lines (a failed line is logged), flush
\* (?), then sleep for the frame's delay
PFrame ==
  /\ pc = "p_frame"
  /\ frame_idx < args.frames
  /\ \E io \in IoResults :
       IF io = "ok"
         THEN /\ painted' = Some(Painted(TerminalDimensions(0, 0)))
              /\ hist' = [Moved(hist) EXCEPT !.in_order = (@ /\ InSequence)]
              /\ pc' = "p_poll"
              /\ UNCHANGED result
         ELSE /\ pc' = "returned"
              /\ result' = "Err"
              /\ hist' = Moved(hist)
              /\ UNCHANGED painted
  /\ UNCHANGED <<fm, call, ncalls, libvars,
                 term, resizes, chan, watcher, thr, args,
                 current_iteration, frame_idx, frames, cursor>>

\* match poll(0): a quit key breaks 'outer, a pause key goes on to a
\* blocking read(), anything else and every failure goes on to the next frame
PPoll ==
  /\ pc = "p_poll"
  /\ \E ev \in PollEvents :
       /\ hist' = [hist EXCEPT
                     !.pause_read = (ev = "pause"),
                     !.quit_read = (@ \/ ev = "quit"),
                     !.exit_by = IF ev = "quit" THEN "quit" ELSE @]
       /\ CASE ev = "quit" ->
                 /\ pc' = "p_exit"
                 /\ UNCHANGED frame_idx
            [] ev = "pause" ->
                 /\ pc' = "p_paused"
                 /\ UNCHANGED frame_idx
            [] OTHER ->
                 /\ pc' = "p_frame"
                 /\ frame_idx' = frame_idx + 1
  /\ UNCHANGED <<fm, call, ncalls, libvars,
                 term, resizes, chan, watcher, thr, args,
                 current_iteration, frames, cursor, result, painted>>

\* the read() of the pause branch returns, with any event or with an error
PResume ==
  /\ pc = "p_paused"
  /\ pc' = "p_frame"
  /\ frame_idx' = frame_idx + 1
  /\ hist' = Moved(hist)
  /\ UNCHANGED <<fm, call, ncalls, libvars,
                 term, resizes, chan, watcher, thr, args,
                 current_iteration, frames, cursor, result, painted>>

\* execute!(stdout, Show)?, then, clear_on_exit being true,
\* execute!(stdout, Clear(All), MoveTo(0, 0))?
PExit ==
  /\ pc = "p_exit"
  /\ \E show \in IoResults, clear \in IoResults :
       /\ cursor' = IF show = "ok" THEN "visible" ELSE cursor
       /\ result' = IF show = "ok" /\ clear = "ok" THEN "Ok" ELSE "Err"
  /\ pc' = "returned"
  /\ hist' = Moved(hist)
  /\ UNCHANGED <<fm, call, ncalls, libvars,
                 term, resizes, chan, watcher, thr, args,
                 current_iteration, frame_idx, frames, painted>>

NextMain ==
  \/ MainDims
  \/ MainWatcherNew
  \/ MainStartWatching
  \/ RHide
  \/ ROuter
  \/ RNextIteration
  \/ RDelayPanic
  \/ RResizeBranch
  \/ RBorrow
  \/ RPaint
  \/ RPoll
  \/ RExit
  \/ MainDropWatcher
  \/ PValidate
  \/ PHide
  \/ POuter
  \/ PNextIteration
  \/ PFrame
  \/ PPoll
  \/ PResume
  \/ PExit
  \/ EnvResize
  \/ \E k \in Threads : ThreadStep(k)

Spec == InitMain /\ [][NextMain]_vars

\* handle_responsive_terminal_display alone: the steps of the program's task
\* in the watched playback
NextResponsive ==
  \/ MainDims
  \/ MainWatcherNew
  \/ MainStartWatching
  \/ RHide
  \/ ROuter
  \/ RNextIteration
  \/ RDelayPanic
  \/ RResizeBranch
  \/ RBorrow
  \/ RPaint
  \/ RPoll
  \/ RExit
  \/ MainDropWatcher

InitWatched ==
  /\ InitMain
  /\ args.mode = "responsive"

NextWatched ==
  \/ NextResponsive
  \/ EnvResize
  \/ \E k \in Threads : ThreadStep(k)

\* The runtime keeps running the playback's task, whose timer fires, and the
\* operating system schedules the polling thread; the user resizes the
\* terminal or does not.
FairSpecWatched ==
  /\ InitWatched
  /\ [][NextWatched]_vars
  /\ WF_vars(NextResponsive)
  /\ \A k \in Threads : WF_vars(ThreadStep(k))

(***************************************************************************)
(* Library functions evaluated on their inputs.  eval holds the function   *)
(* applied last (fn), its arguments and its result; a result is            *)
(* [kind |-> "Ok", value |-> v], [kind |-> "Err", err |-> e] or            *)
(* [kind |-> "panic"].                                                     *)
(***************************************************************************)
Ok(v) == [ kind |-> "Ok", value |-> v ]

Err(e) == [ kind |-> "Err", err |-> e ]

Panic == [ kind |-> "panic" ]

\* the sequences over S of length 0..n
SeqsUpTo(S, n) == UNION { [1..k -> S] : k \in 0..n }

\* frame delays in ms that callers pass
DelayValues == {0, 40, 250}

\* validate_animation_input: no frames, or no delays, is an error
validate_animation_input(nframes, frame_delays) ==
  IF nframes = 0 THEN Err("Animation")
  ELSE IF Len(frame_delays) = 0 THEN Err("Animation")
  ELSE Ok(<<>>)

\* display_ascii_animation, "Calculate frame delay": the frame's own delay,
\* else the first delay, else 100; a delay of 0 is played as 100
plain_delay(frame_delays, idx) ==
  IF idx < Len(frame_delays)
    THEN LET delay_ms == frame_delays[idx + 1]
         IN  IF delay_ms = 0 THEN 100 ELSE delay_ms
  ELSE IF Len(frame_delays) # 0
    THEN LET delay_ms == frame_delays[1]
         IN  IF delay_ms = 0 THEN 100 ELSE delay_ms
  ELSE 100

\* display_ascii_animation as far as the delay of frame idx
display_ascii_animation_delay(nframes, frame_delays, idx) ==
  LET v == validate_animation_input(nframes, frame_delays)
  IN  IF v.kind # "Ok" THEN v ELSE Ok(plain_delay(frame_delays, idx))

\* display_responsive_ascii_animation: sleep(delays[frame_idx]), an indexing
\* that panics past the end of delays
display_responsive_ascii_animation_delay(nframes, frame_delays, idx) ==
  IF idx < Len(frame_delays)
    THEN Ok(frame_delays[idx + 1])
    ELSE Panic

\* ascii_frames_to_gif_with_dimensions: DEFAULT_FRAME_DELAY
DEFAULT_FRAME_DELAY == 100

\* the frame_delay of the render closure: the frame's own delay, else the
\* first, else DEFAULT_FRAME_DELAY
gif_frame_delay(frame_delays, idx) ==
  IF idx < Len(frame_delays) THEN frame_delays[idx + 1]
  ELSE IF Len(frame_delays) # 0 THEN frame_delays[1]
  ELSE DEFAULT_FRAME_DELAY

\* ascii_frames_to_gif_with_dimensions as far as the delay of frame
\* idx: empty frames and empty delays are rejected first
ascii_frames_to_gif_delay(nframes, frame_delays, idx) ==
  IF nframes = 0 THEN Err("Config")
  ELSE IF Len(frame_delays) = 0 THEN Err("Config")
  ELSE Ok(gif_frame_delay(frame_delays, idx))

DelaySites ==
  { "display_ascii_animation", "display_responsive_ascii_animation",
    "ascii_frames_to_gif_with_dimensions" }

\* the delay a playback or an encoding of nframes frames uses for frame
\* idx
EvalDelay ==
  \E site \in DelaySites, nframes \in 1..MaxFrames,
     frame_delays \in SeqsUpTo(DelayValues, MaxFrames) :
    \E idx \in 0..(nframes - 1) :
      eval' =
        [ fn |-> "delay", site |-> site, nframes |-> nframes,
          frame_delays |-> frame_delays, frame_idx |-> idx,
          out |->
            CASE site = "display_ascii_animation" ->
                   display_ascii_animation_delay(nframes, frame_delays,
                                                 idx)
              [] site = "display_responsive_ascii_animation" ->
                   display_responsive_ascii_animation_delay(
                     nframes, frame_delays, idx)
              [] OTHER ->
                   ascii_frames_to_gif_delay(nframes, frame_delays,
                                             idx) ]

\* the largest u16
U16Max == 65535

\* how the build treats an integer overflow: it panics when overflow checks
\* are compiled in (the debug profile), else the result wraps
Builds == {"overflow-checks", "wrapping"}

\* a * b in u16
u16_mul(a, b, build) ==
  IF a * b <= U16Max THEN Ok(a * b)
  ELSE IF build = "overflow-checks" THEN Panic
  ELSE Ok((a * b) % (U16Max + 1))

\* decode_gif: let delay_ms = if frame.delay == 0 { 100 } else
\* { frame.delay * 10 }, with frame.delay a u16 in hundredths of a second
decode_delay(delay, build) ==
  IF delay = 0 THEN Ok(100) ELSE u16_mul(delay, 10, build)

\* the delay_time_ms decode_gif gives a frame whose source delay is delay
EvalDecodeDelay ==
  \E delay \in 0..U16Max, build \in Builds :
    eval' = [ fn |-> "decode_delay", delay |-> delay,
              out |-> decode_delay(delay, build) ]

(***************************************************************************)
(* converter.rs.  An f32 is written as a fraction [n |-> n, d |-> d] with  *)
(* d > 0.  The values drawn for char_aspect and scale_factor are powers of *)
(* two and the sizes small integers, so every f32 product and quotient the *)
(* code forms is either exact or off by a rounding error far smaller than  *)
(* its distance to the next integer: truncating the f32 gives the floor of *)
(* the exact fraction.  No value comes near u32::MAX, where `as u32`       *)
(* saturates.                                                              *)
(***************************************************************************)
F32(n, d) == [ n |-> n, d |-> d ]

\* x <= 0.0
f32_le_zero(x) == x.n <= 0

\* a, b: positive f32
f32_mul(a, b) == F32(a.n * b.n, a.d * b.d)

f32_div(a, b) == F32(a.n * b.d, a.d * b.n)

\* n as f32
as_f32(n) == F32(n, 1)

\* x as u32 without the .max(1.0)
trunc_as_u32(x) == x.n \div x.d

\* x.max(1.0) as u32, x >= 0
max1_as_u32(x) == IF x.n < x.d THEN 1 ELSE x.n \div x.d

\* glyphs are written as their Unicode scalar values
SPACE == 32

SIMPLE_CHARS == <<32, 46, 58, 45, 61, 43, 42, 35, 37, 64>>

DETAILED_CHARS ==
  <<32, 46, 39, 96, 94, 34, 44, 58, 59, 73, 108, 33, 105, 62, 60, 126, 43,
    95, 45, 63, 93, 91, 125, 123, 49, 41, 40, 124, 92, 47, 116, 102, 106,
    114, 120, 110, 117, 118, 99, 122, 88, 89, 85, 74, 67, 76, 81, 48, 79, 90,
    109, 119, 113, 112, 100, 98, 107, 104, 97, 111, 42, 35, 77, 87, 38, 56,
    37, 66, 64>>

\* AsciiConverterConfig::default()
AsciiConverterConfig_default ==
  [ width |-> None, height |-> None, char_aspect |-> F32(1, 2),
    invert |-> FALSE, detailed |-> TRUE, preserve_aspect_ratio |-> TRUE,
    scale_factor |-> None, custom_charset |-> None ]

\* AsciiConverterConfig::validate
validate(config) ==
  IF config.width # None /\ config.width[1] = 0
    THEN Err("InvalidDimensions")
  ELSE IF config.height # None /\ config.height[1] = 0
    THEN Err("InvalidDimensions")
  ELSE IF f32_le_zero(config.char_aspect)
    THEN Err("Config")
  ELSE IF config.scale_factor # None /\ f32_le_zero(config.scale_factor[1])
    THEN Err("Config")
  ELSE IF config.custom_charset # None /\ Len(config.custom_charset[1]) < 2
    THEN Err("Config")
  ELSE IF config.custom_charset # None /\ Len(config.custom_charset[1]) > 256
    THEN Err("Config")
  ELSE Ok(<<>>)

\* AsciiConverterConfig::get_charset
get_charset(config) ==
  IF config.custom_charset # None THEN config.custom_charset[1]
  ELSE IF config.detailed THEN DETAILED_CHARS
  ELSE SIMPLE_CHARS

\* calculate_target_dimensions that truncates without .max(1.0)
calculate_target_dimensions_unclamped(img_width, img_height, config) ==
  IF img_width = 0 \/ img_height = 0 THEN Err("InvalidDimensions")
  ELSE IF config.scale_factor # None
    THEN LET scale == config.scale_factor[1]
         IN  IF f32_le_zero(scale) THEN Err("Config")
             ELSE Ok(<<trunc_as_u32(f32_mul(as_f32(img_width), scale)),
                       trunc_as_u32(f32_div(f32_mul(as_f32(img_height), scale),
                                            config.char_aspect))>>)
  ELSE IF config.width # None /\ config.height # None
    THEN IF config.width[1] = 0 \/ config.height[1] = 0
           THEN Err("InvalidDimensions")
           ELSE Ok(<<config.width[1], config.height[1]>>)
  ELSE IF config.width # None
    THEN LET width == config.width[1]
         IN  IF width = 0 THEN Err("InvalidDimensions")
             ELSE Ok(<<width,
                       IF config.preserve_aspect_ratio
                         THEN trunc_as_u32(
                                f32_div(F32(width * img_height, img_width),
                                        config.char_aspect))
                         ELSE trunc_as_u32(f32_div(as_f32(img_height),
                                                   config.char_aspect))>>)
  ELSE IF config.height # None
    THEN LET height == config.height[1]
         IN  IF height = 0 THEN Err("InvalidDimensions")
             ELSE Ok(<<IF config.preserve_aspect_ratio
                         THEN trunc_as_u32(
                                f32_mul(F32(height * img_width, img_height),
                                        config.char_aspect))
                         ELSE img_width,
                       height>>)
  ELSE Ok(<<img_width,
            IF config.preserve_aspect_ratio
              THEN trunc_as_u32(f32_div(as_f32(img_height),
                                        config.char_aspect))
              ELSE img_height>>)

\* calculate_target_dimensions that looks at width and height before the
\* scale factor
calculate_target_dimensions_size_first(img_width, img_height, config) ==
  IF img_width = 0 \/ img_height = 0 THEN Err("InvalidDimensions")
  ELSE IF config.width # None /\ config.height # None
    THEN Ok(<<config.width[1], config.height[1]>>)
  ELSE IF config.scale_factor # None
    THEN LET scale == config.scale_factor[1]
         IN  Ok(<<max1_as_u32(f32_mul(as_f32(img_width), scale)),
                  max1_as_u32(f32_div(f32_mul(as_f32(img_height), scale),
                                      config.char_aspect))>>)
  ELSE Ok(<<img_width, img_height>>)

\* calculate_target_dimensions: the first rule that matches, of scale factor,
\* width and height, width only, height only, source size
calculate_target_dimensions(img_width, img_height, config) ==
  IF img_width = 0 \/ img_height = 0 THEN Err("InvalidDimensions")
  ELSE IF config.scale_factor # None
    THEN LET scale == config.scale_factor[1]
         IN  IF f32_le_zero(scale) THEN Err("Config")
             ELSE Ok(<<max1_as_u32(f32_mul(as_f32(img_width), scale)),
                       max1_as_u32(f32_div(f32_mul(as_f32(img_height), scale),
                                           config.char_aspect))>>)
  ELSE IF config.width # None /\ config.height # None
    THEN IF config.width[1] = 0 \/ config.height[1] = 0
           THEN Err("InvalidDimensions")
           ELSE Ok(<<config.width[1], config.height[1]>>)
  ELSE IF config.width # None
    THEN LET width == config.width[1]
         IN  IF width = 0 THEN Err("InvalidDimensions")
             ELSE Ok(<<width,
                       IF config.preserve_aspect_ratio
                         THEN max1_as_u32(
                                f32_div(F32(width * img_height, img_width),
                                        config.char_aspect))
                         ELSE max1_as_u32(f32_div(as_f32(img_height),
                                                  config.char_aspect))>>)
  ELSE IF config.height # None
    THEN LET height == config.height[1]
         IN  IF height = 0 THEN Err("InvalidDimensions")
             ELSE Ok(<<IF config.preserve_aspect_ratio
                         THEN max1_as_u32(
                                f32_mul(F32(height * img_width, img_height),
                                        config.char_aspect))
                         ELSE img_width,
                       height>>)
  ELSE Ok(<<img_width,
            IF config.preserve_aspect_ratio
              THEN max1_as_u32(f32_div(as_f32(img_height),
                                       config.char_aspect))
              ELSE img_height>>)

\* the widths and heights a config may ask for: none, or 0..MaxSide cells
OptSides == {None} \cup { Some(n) : n \in 0..MaxSide }

\* char_aspect values: zero, negative, and powers of two
CharAspects == { F32(0, 1), F32(-1, 2), F32(1, 2), F32(1, 1), F32(2, 1) }

\* scale_factor values: none, zero, negative, and powers of two
ScaleFactors ==
  {None} \cup
  { Some(x) : x \in { F32(0, 1), F32(-1, 1), F32(1, 4), F32(1, 2), F32(1, 1),
                      F32(2, 1) } }

\* configs with a built-in ramp
ResolutionConfigs ==
  { [AsciiConverterConfig_default EXCEPT
       !.width = w, !.height = h, !.char_aspect = ca,
       !.preserve_aspect_ratio = p, !.scale_factor = sf] :
      w \in OptSides, h \in OptSides, ca \in CharAspects, p \in BOOLEAN,
      sf \in ScaleFactors }

\* calculate_target_dimensions as image_to_ascii calls it: on a config that
\* validate accepted
EvalTargetDimensions ==
  \E img_width \in 0..MaxSide, img_height \in 0..MaxSide,
     config \in { c \in ResolutionConfigs : validate(c).kind = "Ok" } :
    eval' = [ fn |-> "calculate_target_dimensions",
              img_width |-> img_width, img_height |-> img_height,
              config |-> config,
              out |-> calculate_target_dimensions(img_width, img_height,
                                                  config) ]

(***************************************************************************)
(* The rasterizers.  A pixel is <<r, g, b, a>>; an image is its width, its *)
(* height and the pixel at each <<x, y>>.  A line of text is the sequence  *)
(* of its characters, those of the escape sequences included.              *)
(*                                                                         *)
(* calculate_brightness is the exact value of the weighted sum; the f32    *)
(* the code computes differs from it by rounding errors of the order of    *)
(* 1e-7, which move the rounded index only for a product within that       *)
(* distance of a half.                                                     *)
(***************************************************************************)

\* calculate_brightness that takes black for the brightest
calculate_brightness_complement(r, g, b) ==
  F32(255000 - (299 * r + 587 * g + 114 * b), 255000)

\* (0.299 * r + 0.587 * g + 0.114 * b) / 255.0
calculate_brightness(r, g, b) ==
  F32(299 * r + 587 * g + 114 * b, 255000)

\* 1.0 - x
one_minus(x) == F32(x.d - x.n, x.d)

\* x.round() as usize: to the nearest integer, a half away from zero; the
\* cast of a negative value gives 0
round_as_usize(x) ==
  IF x.n <= 0 THEN 0 ELSE (2 * x.n + x.d) \div (2 * x.d)

\* calculate_char_index that truncates
calculate_char_index_truncating(brightness, chars_len) ==
  IF chars_len = 0 THEN 0
  ELSE LET index ==
             trunc_as_u32(f32_mul(brightness, as_f32(chars_len - 1)))
       IN  IF index <= chars_len - 1 THEN index ELSE chars_len - 1

calculate_char_index(brightness, chars_len) ==
  IF chars_len = 0 THEN 0
  ELSE LET index ==
             round_as_usize(f32_mul(brightness, as_f32(chars_len - 1)))
       IN  IF index <= chars_len - 1 THEN index ELSE chars_len - 1

\* the index the loop body computes for an opaque pixel
pixel_char_index(pixel, invert, chars_len) ==
  LET brightness == calculate_brightness(pixel[1], pixel[2], pixel[3])
  IN  calculate_char_index(IF invert THEN one_minus(brightness)
                           ELSE brightness,
                           chars_len)

\* {} of a u8: its decimal digits
RECURSIVE decimal(_)
decimal(n) ==
  IF n < 10 THEN <<48 + n>> ELSE decimal(n \div 10) \o <<48 + (n % 10)>>

\* "\x1b[38;2;{r};{g};{b}m"
sgr_foreground(r, g, b) ==
  <<27, 91, 51, 56, 59, 50, 59>> \o decimal(r) \o <<59>> \o decimal(g)
    \o <<59>> \o decimal(b) \o <<109>>

\* "\x1b[0m"
sgr_reset == <<27, 91, 48, 109>>

\* the loop body without the test of the alpha channel
cell_without_transparency(pixel, chars, invert, colored) ==
  LET char_index == pixel_char_index(pixel, invert, Len(chars))
      ascii_char == IF char_index < Len(chars)
                      THEN chars[char_index + 1]
                      ELSE SPACE
  IN  IF colored
        THEN sgr_foreground(pixel[1], pixel[2], pixel[3]) \o <<ascii_char>>
        ELSE <<ascii_char>>

\* the body of the loop over x: what the sampled pixel adds to the line
cell(pixel, chars, invert, colored) ==
  IF pixel[4] = 0 THEN <<SPACE>>
  ELSE LET char_index == pixel_char_index(pixel, invert, Len(chars))
           ascii_char == IF char_index < Len(chars)
                           THEN chars[char_index + 1]
                           ELSE SPACE
       IN  IF colored
             THEN sgr_foreground(pixel[1], pixel[2], pixel[3])
                    \o <<ascii_char>>
             ELSE <<ascii_char>>

\* ((i as f64 / target as f64) * img as f64) as u32, .min(img - 1): the
\* source column of target column i, or row of row i.  The f64 product is the
\* exact one for the sizes drawn with images that are not of one colour.
sample(i, target, img) ==
  IF (i * img) \div target <= img - 1 THEN (i * img) \div target
  ELSE img - 1

\* image_to_ascii (colored = FALSE) and image_to_colored_ascii (TRUE), which
\* differ in what a cell adds to the line and in the end of the line
rasterize(image, config, colored) ==
  IF validate(config).kind # "Ok" THEN validate(config)
  ELSE
    LET chars == get_charset(config)
        img_width == image.width
        img_height == image.height
    IN
    IF img_width = 0 \/ img_height = 0 THEN Err("InvalidDimensions")
    ELSE
      LET target == calculate_target_dimensions(img_width, img_height,
                                                config)
      IN
      IF target.kind # "Ok" THEN target
      ELSE IF target.value[1] = 0 \/ target.value[2] = 0
        THEN Err("InvalidDimensions")
      ELSE
        LET target_width == target.value[1]
            target_height == target.value[2]
            RECURSIVE line(_, _)
            line(y, x) ==
              IF x = target_width
                THEN IF colored THEN sgr_reset ELSE <<>>
                ELSE cell(image.px[<<sample(x, target_width, img_width),
                                     sample(y, target_height, img_height)>>],
                          chars, config.invert, colored)
                     \o line(y, x + 1)
        IN  Ok([ row \in 1..target_height |-> line(row - 1, 0) ])

image_to_ascii(image, config) == rasterize(image, config, FALSE)

image_to_colored_ascii(image, config) == rasterize(image, config, TRUE)

\* opaque black, opaque white, opaque grey, and black and white with an alpha
\* of 0
PixelSamples ==
  { <<0, 0, 0, 255>>, <<255, 255, 255, 255>>, <<128, 128, 128, 255>>,
    <<0, 0, 0, 0>>, <<255, 255, 255, 0>> }

\* an image of one colour
Uniform(w, h, pixel) ==
  [ width |-> w, height |-> h,
    px |-> [ xy \in (0..(w - 1)) \X (0..(h - 1)) |-> pixel ] ]

\* one pixel, two pixels side by side, no pixel, and ten by ten opaque black
ImageSamples ==
  UNION { { [ width |-> w, height |-> 1, px |-> px ] :
              px \in [ (0..(w - 1)) \X {0} -> PixelSamples ] } :
          w \in 1..2 }
    \cup { Uniform(0, 0, <<0, 0, 0, 255>>), Uniform(0, 1, <<0, 0, 0, 255>>),
           Uniform(10, 10, <<0, 0, 0, 255>>) }

\* 256 and 257 different glyphs
LongCharset(n) == [ i \in 1..n |-> 255 + i ]

\* no custom ramp, and custom ramps of 0, 1, 2, 3, 256 and 257 glyphs, with
\* and without a glyph that comes twice
CustomCharsets ==
  { None, Some(<<>>), Some(<<64>>), Some(<<32, 64>>), Some(<<64, 64>>),
    Some(<<32, 64, 32>>), Some(LongCharset(256)), Some(LongCharset(257)) }

\* configs a caller of the library can build, and the one of the scenario of
\* a width of 10 with the ramp of ' ' and '@'
ConverterConfigs ==
  { [AsciiConverterConfig_default EXCEPT
       !.width = w, !.height = h, !.char_aspect = ca, !.invert = inv,
       !.detailed = det, !.scale_factor = sf, !.custom_charset = cs] :
      w \in {None, Some(0), Some(2)}, h \in {None, Some(0), Some(1)},
      ca \in {F32(0 - 1, 2), F32(0, 1), F32(1, 2)}, inv \in BOOLEAN,
      det \in BOOLEAN, sf \in {None, Some(F32(0, 1)), Some(F32(1, 1))},
      cs \in CustomCharsets }
    \cup { [AsciiConverterConfig_default EXCEPT
              !.width = Some(10), !.custom_charset = Some(<<32, 64>>)] }

\* a call of image_to_ascii or image_to_colored_ascii; chars is the ramp the
\* rows were rendered with
EvalImageToAscii ==
  \E image \in ImageSamples, config \in ConverterConfigs,
     colored \in BOOLEAN :
    LET out == IF colored THEN image_to_colored_ascii(image, config)
               ELSE image_to_ascii(image, config)
    IN  eval' = [ fn |-> "image_to_ascii", colored |-> colored,
                  image |-> image, config |-> config, out |-> out,
                  chars |-> IF out.kind = "Ok"
                              THEN Some(get_charset(config))
                              ELSE None ]

\* the values of a colour channel
ChannelLevels == { (255 * i) \div MaxLevel : i \in 0..MaxLevel }

OpaquePixels ==
  { <<r, g, b, 255>> : r \in ChannelLevels, g \in ChannelLevels,
                       b \in ChannelLevels }

\* the lengths of the shortest ramp, the two built-in ramps and the longest
\* ramp
RampLengths == {2, Len(SIMPLE_CHARS), Len(DETAILED_CHARS), 256}

\* the indices the loop body computes for two opaque pixels p and q
EvalCharIndex ==
  \E p \in OpaquePixels, q \in OpaquePixels, chars_len \in RampLengths,
     invert \in BOOLEAN :
    eval' = [ fn |-> "char_index", p |-> p, q |-> q,
              chars_len |-> chars_len, invert |-> invert,
              out |-> <<pixel_char_index(p, invert, chars_len),
                        pixel_char_index(q, invert, chars_len)>> ]

(***************************************************************************)
(* output.rs: the palettes and the quantizer.  A palette is the Vec<u8> of *)
(* the channels of its entries, three to an entry; a colour is             *)
(* <<r, g, b>>.  The interpolation of create_optimized_palette is exact in *)
(* f32 (multiples of 1/32 below 256).  hsv_to_rgb is computed on exact     *)
(* fractions: the f32 the code computes may truncate to a channel one      *)
(* lower where the exact product is a whole number.                        *)
(***************************************************************************)
MAX_PALETTE_COLORS == 256

RECURSIVE GCD(_, _)
GCD(a, b) == IF b = 0 THEN a ELSE GCD(b, a % b)

\* the same value in lowest terms
Reduced(x) ==
  LET g == GCD(IF x.n < 0 THEN 0 - x.n ELSE x.n, x.d)
  IN  F32(x.n \div g, x.d \div g)

f32_add(a, b) == Reduced(F32(a.n * b.d + b.n * a.d, a.d * b.d))

f32_sub(a, b) == Reduced(F32(a.n * b.d - b.n * a.d, a.d * b.d))

\* x.abs()
f32_abs(x) == F32(IF x.n < 0 THEN 0 - x.n ELSE x.n, x.d)

\* x % 2.0, x >= 0
f32_rem2(x) == F32(x.n % (2 * x.d), x.d)

\* x as u8, 0 <= x < 256
trunc_as_u8(x) == x.n \div x.d

\* the Vec<u8> that extend_from_slice has put the colours into, one after the
\* other
bytes(colors) ==
  [ j \in 1..(3 * Len(colors)) |->
      colors[((j - 1) \div 3) + 1][((j - 1) % 3) + 1] ]

primary_colors ==
  << <<255, 255, 255>>, <<255, 0, 0>>, <<0, 255, 0>>, <<0, 0, 255>>,
     <<255, 255, 0>>, <<255, 0, 255>>, <<0, 255, 255>>, <<0, 0, 0>>,
     <<128, 128, 128>>, <<192, 192, 192>>, <<64, 64, 64>>,
     <<160, 160, 160>>, <<255, 128, 0>>, <<128, 255, 0>>, <<0, 255, 128>>,
     <<128, 0, 255>>, <<255, 0, 128>>, <<0, 128, 255>>, <<255, 192, 192>>,
     <<192, 255, 192>>, <<192, 192, 255>>, <<255, 255, 192>>,
     <<255, 192, 255>>, <<192, 255, 255>> >>

\* the (sat, val) pairs of the hue sweep
SatVals ==
  << <<F32(1, 1), F32(1, 1)>>, <<F32(8, 10), F32(9, 10)>>,
     <<F32(6, 10), F32(8, 10)>>, <<F32(4, 10), F32(7, 10)>>,
     <<F32(2, 10), F32(6, 10)>> >>

hsv_to_rgb(h, s, v) ==
  LET c == Reduced(f32_mul(v, s))
      x == Reduced(f32_mul(c,
             f32_sub(F32(1, 1),
                     f32_abs(f32_sub(f32_rem2(Reduced(f32_div(h, F32(60, 1)))),
                                     F32(1, 1))))))
      m == f32_sub(v, c)
      sector == h.n \div h.d
      zero == F32(0, 1)
      prime == IF sector <= 59 THEN <<c, x, zero>>
               ELSE IF sector <= 119 THEN <<x, c, zero>>
               ELSE IF sector <= 179 THEN <<zero, c, x>>
               ELSE IF sector <= 239 THEN <<zero, x, c>>
               ELSE IF sector <= 299 THEN <<x, zero, c>>
               ELSE <<c, zero, x>>
  IN  [ k \in 1..3 |->
          trunc_as_u8(f32_mul(f32_add(prime[k], m), F32(255, 1))) ]

\* while palette.len() < MAX_PALETTE_COLORS * 3 { extend with bg_color }:
\* bg_color is added until there are MAX_PALETTE_COLORS colours
pad_with(colors, bg_color) ==
  IF Len(colors) < MAX_PALETTE_COLORS
    THEN colors \o [ k \in 1..(MAX_PALETTE_COLORS - Len(colors)) |-> bg_color ]
    ELSE colors

\* palette.truncate(n)
truncate(palette, n) ==
  IF Len(palette) > n THEN SubSeq(palette, 1, n) ELSE palette

create_enhanced_color_palette(bg_color) ==
  LET sweep ==
        [ j \in 1..(24 * Len(SatVals)) |->
            LET i == (j - 1) \div Len(SatVals)
                sv == SatVals[((j - 1) % Len(SatVals)) + 1]
            IN  hsv_to_rgb(Reduced(f32_mul(F32(i, 24), F32(360, 1))),
                           sv[1], sv[2]) ]
      grays ==
        [ j \in 1..64 |->
            LET gray_value == ((j - 1) * 255) \div 63
            IN  <<gray_value, gray_value, gray_value>> ]
  IN  truncate(
        bytes(pad_with(<<bg_color>> \o primary_colors \o sweep \o grays,
                       bg_color)),
        MAX_PALETTE_COLORS * 3)

\* create_optimized_palette that does not fill the palette up
create_optimized_palette_unpadded(bg_color, text_color) ==
  LET steps ==
        [ i \in 1..31 |->
            [ k \in 1..3 |->
                trunc_as_u8(F32(bg_color[k] * (32 - i) + text_color[k] * i,
                                32)) ] ]
  IN  truncate(bytes(<<bg_color, text_color>> \o steps),
               MAX_PALETTE_COLORS * 3)

create_optimized_palette(bg_color, text_color) ==
  LET steps ==
        [ i \in 1..31 |->
            [ k \in 1..3 |->
                trunc_as_u8(F32(bg_color[k] * (32 - i) + text_color[k] * i,
                                32)) ] ]
  IN  truncate(bytes(pad_with(<<bg_color, text_color>> \o steps, bg_color)),
               MAX_PALETTE_COLORS * 3)

\* the palette ascii_frames_to_gif_with_dimensions builds
build_palette(colored, bg_color, text_color) ==
  IF colored THEN create_enhanced_color_palette(bg_color)
  ELSE create_optimized_palette(bg_color, text_color)

\* the HashMap from colour to index: the inserts go by rising i and an insert
\* replaces what its key had, so a key is left with the last i of its colour
create_color_cache(palette) ==
  LET colors_count == Len(palette) \div 3
      indices == { i \in 0..(colors_count - 1) : i * 3 + 2 < Len(palette) }
      key(i) == <<palette[i * 3 + 1], palette[i * 3 + 2], palette[i * 3 + 3]>>
  IN  [ rgb \in { key(i) : i \in indices } |->
          CHOOSE i \in indices :
            key(i) = rgb /\ \A j \in (i + 1)..(colors_count - 1) :
                              j \in indices => key(j) # rgb ]

\* (dr * dr + dg * dg + db * db) as u32
distance_to(rgb, palette, i) ==
  LET dr == rgb[1] - palette[i * 3 + 1]
      dg == rgb[2] - palette[i * 3 + 2]
      db == rgb[3] - palette[i * 3 + 3]
  IN  dr * dr + dg * dg + db * db

\* the loop variables of find_closest_color before the first turn:
\* min_distance is u32::MAX, which every distance is below, written None
ScanStart == [ min_distance |-> None, best_index |-> 0, broke |-> FALSE ]

\* the body of the loop with <= for <, and no break
scan_step_keeping_last(rgb, palette, i, st) ==
  IF i * 3 + 2 < Len(palette)
       /\ (st.min_distance = None
             \/ distance_to(rgb, palette, i) <= st.min_distance[1])
    THEN [ min_distance |-> Some(distance_to(rgb, palette, i)),
           best_index |-> i, broke |-> FALSE ]
    ELSE st

\* one turn of the loop over the palette, for the entry i
scan_step(rgb, palette, i, st) ==
  IF st.broke THEN st
  ELSE IF i * 3 + 2 < Len(palette)
            /\ (st.min_distance = None
                  \/ distance_to(rgb, palette, i) < st.min_distance[1])
    THEN [ min_distance |-> Some(distance_to(rgb, palette, i)),
           best_index |-> i,
           broke |-> distance_to(rgb, palette, i) = 0 ]
    ELSE st

\* the turns for the entries lo..hi-1, in order; after a break there are no
\* more
RECURSIVE scan(_, _, _, _, _)
scan(rgb, palette, lo, hi, st) ==
  IF lo >= hi THEN st
  ELSE IF hi = lo + 1 THEN scan_step(rgb, palette, lo, st)
  ELSE LET mid == (lo + hi) \div 2
           first == scan(rgb, palette, lo, mid, st)
       IN  IF first.broke THEN first
           ELSE scan(rgb, palette, mid, hi, first)

find_closest_color(rgb, palette, cache) ==
  IF rgb \in DOMAIN cache THEN cache[rgb]
  ELSE scan(rgb, palette, 0, Len(palette) \div 3, ScanStart).best_index

\* background and text colours: black, white, a dark grey that is less than
\* 32 from black in every channel, red, a middle grey
ColourSamples ==
  { <<0, 0, 0>>, <<255, 255, 255>>, <<10, 10, 10>>, <<255, 0, 0>>,
    <<128, 128, 128>> }

\* colours to quantize: the samples, the colours of the channel levels, and
\* two that lie halfway between two entries of the black-to-white palette
QuantizeInputs ==
  ColourSamples
    \cup { <<r, g, b>> : r \in ChannelLevels, g \in ChannelLevels,
                         b \in ChannelLevels }
    \cup { <<11, 11, 11>>, <<243, 243, 243>> }

\* let palette = ...; let color_cache = create_color_cache(&palette)
EvalPalette ==
  \E colored \in BOOLEAN, bg_color \in ColourSamples,
     text_color \in ColourSamples :
    LET palette == build_palette(colored, bg_color, text_color)
    IN  eval' = [ fn |-> "palette", colored |-> colored,
                  bg_color |-> bg_color, text_color |-> text_color,
                  palette |-> palette,
                  color_cache |-> create_color_cache(palette) ]

\* quantize_image: the index of a pixel of colour rgb, by the palette and the
\* cache that were built
EvalQuantize ==
  /\ eval.fn = "palette"
  /\ \E rgb \in QuantizeInputs :
       eval' = [ fn |-> "quantize", colored |-> eval.colored,
                 bg_color |-> eval.bg_color, text_color |-> eval.text_color,
                 palette |-> eval.palette, color_cache |-> eval.color_cache,
                 rgb |-> rgb, cached |-> rgb \in DOMAIN eval.color_cache,
                 out |-> find_closest_color(rgb, eval.palette,
                                            eval.color_cache) ]

(***************************************************************************)
(* output.rs: coloured lines.  A line is the sequence of its code points   *)
(* and an offset counts the characters before it, from 0 as in the source  *)
(* (the regex matches begin and end between characters).  A ColoredCharacter*)
(* is [character, color] and a colour is <<r, g, b>>.  The painter is the  *)
(* sequence of its draw_text_mut calls, each [color, text].                *)
(***************************************************************************)
ESC == 27

\* &line[start..end]
slice(line, start, end) == SubSeq(line, start + 1, end)

\* line[i..].starts_with(lit)
starts_with(line, i, lit) ==
  /\ i + Len(lit) <= Len(line)
  /\ slice(line, i, i + Len(lit)) = lit

\* line.contains(ch)
contains(line, ch) == \E i \in 1..Len(line) : line[i] = ch

\* \d of the regex, on the code points drawn
is_digit(ch) == ch \in 48..57

\* where a greedy \d* that begins at offset i ends
digits_end(line, i) ==
  CHOOSE j \in i..Len(line) :
    /\ \A k \in i..(j - 1) : is_digit(line[k + 1])
    /\ j = Len(line) \/ ~is_digit(line[j + 1])

\* where a greedy [^\x1b]* that begins at offset i ends
text_end(line, i) ==
  CHOOSE j \in i..Len(line) :
    /\ \A k \in i..(j - 1) : line[k + 1] # ESC
    /\ j = Len(line) \/ line[j + 1] = ESC

\* the match and its four groups, the groups' ends known
match_of(line, i, r_end, g_end, b_end, end) ==
  Some([ start |-> i, end |-> end,
         groups |-> << slice(line, i + 7, r_end),
                       slice(line, r_end + 1, g_end),
                       slice(line, g_end + 1, b_end),
                       slice(line, b_end + 1, end) >> ])

\* (\d+)m([^\x1b]*), the third number having ended at b_end
match_blue(line, i, r_end, g_end, b_end) ==
  IF b_end = g_end + 1 \/ ~starts_with(line, b_end, <<109>>) THEN None
  ELSE match_of(line, i, r_end, g_end, b_end, text_end(line, b_end + 1))

\* (\d+);, the second number having ended at g_end
match_green(line, i, r_end, g_end) ==
  IF g_end = r_end + 1 \/ ~starts_with(line, g_end, <<59>>) THEN None
  ELSE match_blue(line, i, r_end, g_end, digits_end(line, g_end + 1))

\* (\d+);, the first number having ended at r_end
match_red(line, i, r_end) ==
  IF r_end = i + 7 \/ ~starts_with(line, r_end, <<59>>) THEN None
  ELSE match_green(line, i, r_end, digits_end(line, r_end + 1))

\* \x1b\[38;2;(\d+);(\d+);(\d+)m([^\x1b]*) matched at offset i: the match
\* and its four groups, or None.  No digit is ';' or 'm', so the greedy
\* groups never give back what they took.
regex_match_at(line, i) ==
  IF ~starts_with(line, i, <<ESC, 91, 51, 56, 59, 50, 59>>) THEN None
  ELSE match_red(line, i, digits_end(line, i + 7))

\* found if it is a match, else the leftmost match from offset pos on
RECURSIVE find_at(_, _)
or_find_at(found, line, pos) ==
  IF found # None THEN found ELSE find_at(line, pos)

\* the leftmost match that begins at offset pos or after it, or None
find_at(line, pos) ==
  IF pos > Len(line) THEN None
  ELSE or_find_at(regex_match_at(line, pos), line, pos + 1)

\* regex.find_iter(line): the matches from left to right, each sought from
\* the end of the one before; found is the leftmost match not yet taken
RECURSIVE find_iter_after(_, _)
find_iter_after(line, found) ==
  IF found = None THEN <<>>
  ELSE <<[ start |-> found[1].start, end |-> found[1].end ]>>
         \o find_iter_after(line, find_at(line, found[1].end))

find_iter(line) == find_iter_after(line, find_at(line, 0))

\* the groups of a match, [1] to [4]
groups_of(found) == IF found = None THEN None ELSE Some(found[1].groups)

\* regex.captures(text): the groups of the leftmost match
captures(text) == groups_of(find_at(text, 0))

\* the number a string of digits spells
RECURSIVE decimal_value(_)
decimal_value(digits) ==
  IF digits = <<>> THEN 0
  ELSE decimal_value(SubSeq(digits, 1, Len(digits) - 1)) * 10
         + (digits[Len(digits)] - 48)

\* the u8 of a number, if it is one
checked_u8(value) == IF value <= 255 THEN Ok(value) ELSE Err("PosOverflow")

\* digits.parse::<u8>()
parse_u8(digits) == checked_u8(decimal_value(digits))

ColoredCharacter(ch, color) == [ character |-> ch, color |-> color ]

\* text.chars() without the characters of excluded
chars_except(text, excluded) ==
  LET kept(ch) == ch \notin excluded IN SelectSeq(text, kept)

\* one ColoredCharacter of the colour for each character of text
with_color(text, color) ==
  [ i \in 1..Len(text) |-> ColoredCharacter(text[i], color) ]

\* the if let of the three parsed numbers: st with the colour and the
\* characters of the match, if each number is a u8
push_parsed(st, r, g, b, text) ==
  IF r.kind = "Ok" /\ g.kind = "Ok" /\ b.kind = "Ok"
    THEN [ st EXCEPT
             !.result = @ \o with_color(text, <<r.value, g.value, b.value>>),
             !.current_color = <<r.value, g.value, b.value>> ]
    ELSE st

\* the if let of the captures
push_captures(st, groups) ==
  IF groups # None
    THEN push_parsed(st, parse_u8(groups[1][1]), parse_u8(groups[1][2]),
                     parse_u8(groups[1][3]), groups[1][4])
    ELSE st

\* the uncoloured text before a match, pushed in the current colour
push_uncolored(st, line, mat) ==
  IF mat.start > st.last_end
    THEN [ st EXCEPT
             !.result =
                @ \o with_color(chars_except(slice(line, st.last_end,
                                                   mat.start), {ESC}),
                                st.current_color) ]
    ELSE st

\* last_end = mat.end()
end_match(st, mat) == [ st EXCEPT !.last_end = mat.end ]

\* the loop of parse_line_to_colored_characters over the matches;
\* st = [result, last_end, current_color]
RECURSIVE parse_matches(_, _, _)
parse_matches(line, matches, st) ==
  IF matches = <<>> THEN st
  ELSE parse_matches(
         line, Tail(matches),
         end_match(push_captures(push_uncolored(st, line, Head(matches)),
                                 captures(slice(line, Head(matches).start,
                                                Head(matches).end))),
                   Head(matches)))

\* the characters left after the last match, without ESC and NUL
push_remaining(st, line) ==
  IF st.last_end < Len(line)
    THEN st.result
           \o with_color(chars_except(slice(line, st.last_end, Len(line)),
                                      {ESC, 0}),
                         st.current_color)
    ELSE st.result

parse_line_to_colored_characters(line, default_color) ==
  IF ~contains(line, ESC) THEN with_color(line, default_color)
  ELSE push_remaining(parse_matches(line, find_iter(line),
                                    [ result |-> <<>>, last_end |-> 0,
                                      current_color |-> default_color ]),
                      line)

\* text.replace(pat, "")
RECURSIVE replace_with_nothing(_, _)
replace_with_nothing(text, pat) ==
  IF text = <<>> THEN <<>>
  ELSE IF starts_with(text, 0, pat)
    THEN replace_with_nothing(slice(text, Len(pat), Len(text)), pat)
    ELSE <<Head(text)>> \o replace_with_nothing(Tail(text), pat)

\* the characters of the fourth group, counted
count_captures(st, groups) ==
  IF groups # None THEN [ st EXCEPT !.count = @ + Len(groups[1][4]) ]
  ELSE st

\* the uncoloured text before a match, counted without ESC
count_uncolored(st, line, mat) ==
  IF mat.start > st.last_end
    THEN [ st EXCEPT
             !.count = @ + Len(chars_except(slice(line, st.last_end,
                                                  mat.start), {ESC})) ]
    ELSE st

\* the loop of calculate_line_character_count over the matches;
\* st = [count, last_end]
RECURSIVE count_matches(_, _, _)
count_matches(line, matches, st) ==
  IF matches = <<>> THEN st
  ELSE count_matches(
         line, Tail(matches),
         end_match(count_captures(count_uncolored(st, line, Head(matches)),
                                  captures(slice(line, Head(matches).start,
                                                 Head(matches).end))),
                   Head(matches)))

\* the characters left after the last match, counted without the resets and
\* without ESC
count_remaining(st, line) ==
  IF st.last_end < Len(line)
    THEN st.count
           + Len(chars_except(
                   replace_with_nothing(slice(line, st.last_end, Len(line)),
                                        sgr_reset),
                   {ESC}))
    ELSE st.count

calculate_line_character_count(line) ==
  IF contains(line, ESC)
    THEN count_remaining(count_matches(line, find_iter(line),
                                       [ count |-> 0, last_end |-> 0 ]),
                         line)
    ELSE Len(line)

\* the inner while loop: the offset after the last character, from i on,
\* of the colour current_color
RECURSIVE segment_end(_, _, _)
segment_end(colored_chars, current_color, i) ==
  IF i < Len(colored_chars) /\ colored_chars[i + 1].color = current_color
    THEN segment_end(colored_chars, current_color, i + 1)
    ELSE i

\* the segment written over the spaces but not at its columns: it begins the
\* painted string
positioned_text_unaligned(colored_chars, start_pos, segment_chars) ==
  [ p \in 1..Len(colored_chars) |->
      IF p <= Len(segment_chars) THEN segment_chars[p] ELSE SPACE ]

\* positioned_line: vec![' '; colored_chars.len()] with the characters of the
\* segment written at start_pos + idx
positioned_text(colored_chars, start_pos, segment_chars) ==
  [ p \in 1..Len(colored_chars) |->
      IF p - 1 >= start_pos /\ p - 1 < start_pos + Len(segment_chars)
        THEN segment_chars[p - start_pos]
        ELSE SPACE ]

\* one turn of the outer while loop: the draw_text_mut call for the segment
\* from start_pos to end
draw_segment(colored_chars, start_pos, end) ==
  [ color |-> colored_chars[start_pos + 1].color,
    text |-> positioned_text(
               colored_chars, start_pos,
               [ k \in 1..(end - start_pos) |->
                   colored_chars[start_pos + k].character ]) ]

\* the outer while loop from offset i on, the segment that begins at i
\* ending at end: the draw_text_mut calls it makes
RECURSIVE draw_segments(_, _)
draw_from(colored_chars, i, end) ==
  <<draw_segment(colored_chars, i, end)>> \o draw_segments(colored_chars, end)

draw_segments(colored_chars, i) ==
  IF i >= Len(colored_chars) THEN <<>>
  ELSE draw_from(colored_chars, i,
                 segment_end(colored_chars, colored_chars[i + 1].color, i))

\* no call for a row without characters
render_colored_line_to_image(line, text_color) ==
  draw_segments(parse_line_to_colored_characters(line, text_color), 0)

\* white, the default of the options, and the grey of the sampled pixels
TextColours == { <<255, 255, 255>>, <<128, 128, 128>> }

\* a row of image_to_colored_ascii handed to the re-encoder: parsed, counted
\* and painted
EvalRenderLine ==
  /\ eval.fn = "image_to_ascii"
  /\ eval.colored
  /\ eval.out.kind = "Ok"
  /\ \E y \in 1..Len(eval.out.value), text_color \in TextColours :
       LET line == eval.out.value[y]
       IN  eval' =
             [ fn |-> "render_line", image |-> eval.image,
               config |-> eval.config, y |-> y - 1, line |-> line,
               text_color |-> text_color,
               colored_chars |->
                 parse_line_to_colored_characters(line, text_color),
               count |-> calculate_line_character_count(line),
               calls |-> render_colored_line_to_image(line, text_color) ]

\* everything but eval, gif and conv
othervars ==
  <<fm, call, ncalls, term, resizes, chan, watcher, thr, hist, dispvars>>

\* nothing but the library is in use
IdleProgram ==
  /\ term = TerminalDimensions(0, 0)
  /\ resizes = 0
  /\ chan = watch_channel(TerminalDimensions(0, 0))
  /\ watcher = [TerminalWatcher_new EXCEPT !.alive = FALSE]
  /\ thr = [k \in Threads |-> Unborn]
  /\ hist = NoHist
  /\ fm = IdleFM
  /\ call = NoCall
  /\ ncalls = 0
  /\ IdleDisplay

InitLib ==
  /\ IdleProgram
  /\ IdleLib

NextLib ==
  /\ \/ /\ eval = NoEval
        /\ \/ EvalPalette
           \/ EvalDelay
           \/ EvalDecodeDelay
           \/ EvalTargetDimensions
           \/ EvalCharIndex
           \/ EvalImageToAscii
     \/ EvalQuantize
     \/ EvalRenderLine
  /\ UNCHANGED <<othervars, gif, conv>>

SpecLib == InitLib /\ [][NextLib]_vars

(***************************************************************************)
(* The two batches that run on the rayon pool.                             *)
(*                                                                         *)
(* gif: ascii_frames_to_gif_with_dimensions.  pc is "start", "render" (the *)
(* par_iter over the frames), "write" (the sequential loop over            *)
(* rendered_frames) or "returned".  Frames are numbered from 0; the        *)
(* rendering of input frame k is written k.  fails is the set of frames    *)
(* whose painting or quantizing fails.  results[k] is None until a worker  *)
(* has finished frame k, order is the order the workers finished in.       *)
(*                                                                         *)
(* conv: process_ascii_conversion, in the same way.                        *)
(***************************************************************************)
MIN_FRAME_DELAY == 1

\* collect that takes the results in the order the workers finished
collect_in_completion_order(results, order, n) ==
  IF \E k \in 0..(n - 1) : results[k] # None /\ results[k][1].kind = "Err"
    THEN Err("render")
    ELSE Ok([ j \in 1..Len(order) |-> results[order[j]][1].value ])

\* collect that leaves out the frames that failed
collect_dropping_failures(results, order, n) ==
  LET RECURSIVE kept(_)
      kept(k) ==
        IF k = n THEN <<>>
        ELSE IF results[k] # None /\ results[k][1].kind = "Ok"
          THEN <<results[k][1].value>> \o kept(k + 1)
          ELSE kept(k + 1)
  IN  Ok(kept(0))

\* .collect() of the indexed parallel iterator into Result<Vec<_>>: an error
\* of one item is the result; else the items by index
collect(results, order, n) ==
  IF \E k \in 0..(n - 1) : results[k] # None /\ results[k][1].kind = "Err"
    THEN Err("render")
    ELSE Ok([ j \in 1..n |-> results[j - 1][1].value ])

\* frame.delay = (frame_delay / 10).max(MIN_FRAME_DELAY)
container_delay(frame_delay) ==
  IF frame_delay \div 10 >= MIN_FRAME_DELAY
    THEN frame_delay \div 10
    ELSE MIN_FRAME_DELAY

NoBatch == [ pc |-> "idle" ]

\* the call's arguments, nothing done yet
GifStart(nframes, frame_delays, fails) ==
  [ pc |-> "start", nframes |-> nframes, frame_delays |-> frame_delays,
    fails |-> fails, results |-> [ k \in 0..(nframes - 1) |-> None ],
    order |-> <<>>, rendered |-> <<>>, written |-> <<>>, out |-> None ]

ConvStart(nframes, fails) ==
  [ pc |-> "start", nframes |-> nframes, fails |-> fails,
    results |-> [ k \in 0..(nframes - 1) |-> None ], order |-> <<>>,
    out |-> None ]

InitBatch ==
  /\ IdleProgram
  /\ eval = NoEval
  /\ \/ /\ \E nframes \in 0..MaxFrames,
              frame_delays \in SeqsUpTo(DelayValues, MaxFrames) :
            \E fails \in SUBSET (0..(nframes - 1)) :
              gif = GifStart(nframes, frame_delays, fails)
        /\ conv = NoBatch
     \/ /\ \E nframes \in 0..MaxFrames :
            \E fails \in SUBSET (0..(nframes - 1)) :
              conv = ConvStart(nframes, fails)
        /\ gif = NoBatch

\* options.validate()?, the empty checks, the font, its coverage of the
\* glyphs, the canvas dimensions, File::create, Encoder::new, set_repeat: any
\* of them may fail
GifChecks ==
  /\ gif.pc = "start"
  /\ \E pre \in {"ok", "err"} :
       gif' =
         IF gif.nframes = 0 \/ Len(gif.frame_delays) = 0
           THEN [gif EXCEPT !.pc = "returned", !.out = Some(Err("Config"))]
         ELSE IF pre = "err"
           THEN [gif EXCEPT !.pc = "returned", !.out = Some(Err("setup"))]
         ELSE [gif EXCEPT !.pc = "render"]
  /\ UNCHANGED <<othervars, eval, conv>>

\* a worker finishes frame k: render_ascii_to_image?, the frame's delay,
\* quantize_image?
GifRenderFrame(k) ==
  /\ gif.pc = "render"
  /\ k \in 0..(gif.nframes - 1)
  /\ gif.results[k] = None
  /\ gif' =
       [gif EXCEPT
          !.results[k] =
             Some(IF k \in gif.fails
                    THEN Err("render")
                    ELSE Ok([ frame |-> k,
                              frame_delay |->
                                gif_frame_delay(gif.frame_delays, k) ])),
          !.order = Append(@, k)]
  /\ UNCHANGED <<othervars, eval, conv>>

\* let rendered_frames = frame_results?: the collect is through when every
\* frame has a result, or earlier once a frame has failed (the frames not yet
\* started are then left out)
GifCollect ==
  /\ gif.pc = "render"
  /\ \/ \A k \in 0..(gif.nframes - 1) : gif.results[k] # None
     \/ \E k \in 0..(gif.nframes - 1) :
          gif.results[k] # None /\ gif.results[k][1].kind = "Err"
  /\ LET r == collect(gif.results, gif.order, gif.nframes)
     IN  gif' =
           IF r.kind = "Ok"
             THEN [gif EXCEPT !.pc = "write", !.rendered = r.value]
             ELSE [gif EXCEPT !.pc = "returned", !.out = Some(r)]
  /\ UNCHANGED <<othervars, eval, conv>>

\* one turn of the write loop: the check of the indexed data's length, the
\* frame's delay, encoder.write_frame(&frame)?; the check or the write may fail
GifWriteFrame ==
  /\ gif.pc = "write"
  /\ Len(gif.written) < Len(gif.rendered)
  /\ \E io \in IoResults :
       LET f == gif.rendered[Len(gif.written) + 1]
       IN  gif' =
             IF io = "ok"
               THEN [gif EXCEPT
                       !.written =
                          Append(@, [ frame |-> f.frame,
                                      delay |->
                                        container_delay(f.frame_delay) ])]
               ELSE [gif EXCEPT !.pc = "returned",
                                !.out = Some(Err("GifDecode"))]
  /\ UNCHANGED <<othervars, eval, conv>>

\* the write loop is through: Ok(())
GifFinish ==
  /\ gif.pc = "write"
  /\ Len(gif.written) = Len(gif.rendered)
  /\ gif' = [gif EXCEPT !.pc = "returned", !.out = Some(Ok(<<>>))]
  /\ UNCHANGED <<othervars, eval, conv>>

\* process_ascii_conversion: a worker converts frame k, image_to_ascii or
\* image_to_colored_ascii, paired with the frame's delay
ConvFrame(k) ==
  /\ conv.pc = "start"
  /\ k \in 0..(conv.nframes - 1)
  /\ conv.results[k] = None
  /\ conv' =
       [conv EXCEPT
          !.results[k] = Some(IF k \in conv.fails
                                THEN Err("convert")
                                ELSE Ok([ frame |-> k ])),
          !.order = Append(@, k)]
  /\ UNCHANGED <<othervars, eval, gif>>

\* the Vec of every frame's Result, then results.into_iter().collect()?
ConvCollect ==
  /\ conv.pc = "start"
  /\ \A k \in 0..(conv.nframes - 1) : conv.results[k] # None
  /\ conv' = [conv EXCEPT
                !.pc = "returned",
                !.out = Some(collect(conv.results, conv.order, conv.nframes))]
  /\ UNCHANGED <<othervars, eval, gif>>

NextBatch ==
  \/ GifChecks
  \/ \E k \in 0..(MaxFrames - 1) : GifRenderFrame(k)
  \/ GifCollect
  \/ GifWriteFrame
  \/ GifFinish
  \/ \E k \in 0..(MaxFrames - 1) : ConvFrame(k)
  \/ ConvCollect

SpecBatch == InitBatch /\ [][NextBatch]_vars

(***************************************************************************)
(* output.rs: one call of ascii_frames_to_gif_with_dimensions followed     *)
(* through its checks, the canvas, the file, the encoder, the frames'      *)
(* rendering and the write loop, with the frames' text, the font and the   *)
(* canvas in the state.  The font is the set of the code points it has a   *)
(* glyph for; what is painted is the set of the characters of the strings  *)
(* handed to draw_text_mut; a rendered frame is the length of its indexed  *)
(* data.  The canvases drawn keep width * height far below u32::MAX.       *)
(***************************************************************************)
DEFAULT_PADDING == 20

DEFAULT_CHAR_WIDTH_RATIO == F32(6, 10)

MAX_FONT_SIZE == F32(200, 1)

MAX_LINE_HEIGHT_MULTIPLIER == F32(10, 1)

\* a > b
f32_gt(a, b) == a.n * b.d > b.n * a.d

\* n as u16
as_u16(n) == n % (U16Max + 1)

\* char::is_control: the category Cc
is_control(ch) == ch \in 0..31 \/ ch \in 127..159

\* the characters of a string
Range(text) == { text[i] : i \in 1..Len(text) }

\* the lines of the frames
lines_of(ascii_frames) ==
  UNION { Range(ascii_frames[f]) : f \in 1..Len(ascii_frames) }

\* AsciiGifOutputOptions::validate
options_validate(options) ==
  IF f32_le_zero(options.font_size)
       \/ f32_gt(options.font_size, MAX_FONT_SIZE)
    THEN Err("InvalidFontSize")
  ELSE IF f32_le_zero(options.line_height_multiplier)
            \/ f32_gt(options.line_height_multiplier,
                      MAX_LINE_HEIGHT_MULTIPLIER)
    THEN Err("Config")
  ELSE Ok(<<>>)

\* the characters of the fourth group that are no control characters
unique_captures(st, groups) ==
  IF groups # None
    THEN [ st EXCEPT
             !.chars = @ \cup { ch \in Range(groups[1][4]) :
                                  ~is_control(ch) } ]
    ELSE st

\* the uncoloured text before a match
unique_uncolored(st, line, mat) ==
  IF mat.start > st.last_end
    THEN [ st EXCEPT
             !.chars = @ \cup { ch \in Range(slice(line, st.last_end,
                                                   mat.start)) :
                                  ch # ESC /\ ~is_control(ch) } ]
    ELSE st

\* the loop of validate_font_charset_support over the matches of a line;
\* st = [chars, last_end]
RECURSIVE unique_chars_of_matches(_, _, _)
unique_chars_of_matches(line, matches, st) ==
  IF matches = <<>> THEN st
  ELSE unique_chars_of_matches(
         line, Tail(matches),
         end_match(unique_captures(unique_uncolored(st, line, Head(matches)),
                                   captures(slice(line, Head(matches).start,
                                                  Head(matches).end))),
                   Head(matches)))

\* the characters left after the last match
unique_remaining(st, line) ==
  IF st.last_end < Len(line)
    THEN st.chars
           \cup { ch \in Range(slice(line, st.last_end, Len(line))) :
                    ch # ESC /\ ch # 0 /\ ~is_control(ch) }
    ELSE st.chars

\* what a line adds to unique_chars
unique_chars_of_line(line) ==
  IF contains(line, ESC)
    THEN unique_remaining(
           unique_chars_of_matches(line, find_iter(line),
                                   [ chars |-> {}, last_end |-> 0 ]),
           line)
    ELSE { ch \in Range(line) : ~is_control(ch) }

\* unique_chars once the loops over the frames and their lines are through
unique_chars(ascii_frames) ==
  UNION { unique_chars_of_line(line) : line \in lines_of(ascii_frames) }

\* unsupported_chars.sort()
RECURSIVE sorted(_)
sorted(chars) ==
  IF chars = {} THEN <<>>
  ELSE LET least == CHOOSE ch \in chars : \A other \in chars : ch <= other
       IN  <<least>> \o sorted(chars \ {least})

\* the end of validate_font_charset_support: the error names the characters
\* the font has not, sorted
support_of(checked, unsupported_chars) ==
  [ checked |-> checked,
    result |-> IF unsupported_chars # {}
                 THEN [ kind |-> "Err", err |-> "UnsupportedFontCharacters",
                        characters |-> sorted(unsupported_chars) ]
                 ELSE Ok(<<>>) ]

\* the characters of chars the font has no glyph for:
\* font.glyph(ch).id().0 == 0
unsupported(chars, font) == support_of(chars, { ch \in chars : ch \notin font })

\* validate_font_charset_support: the characters looked up in the font and
\* the result
validate_font_charset_support(ascii_frames, font) ==
  unsupported(unique_chars(ascii_frames), font)

\* the greatest of a set of numbers, or the default for the empty set
max_or(numbers, default) ==
  IF numbers = {} THEN default
  ELSE CHOOSE n \in numbers : \A other \in numbers : n >= other

\* the end of calculate_dimensions_from_ascii
dimensions_of(max_line_length, max_lines) ==
  IF max_line_length = 0 \/ max_lines = 0 THEN Err("Config")
  ELSE Ok([ max_line_length |-> max_line_length, max_lines |-> max_lines ])

\* calculate_dimensions_from_ascii: [max_line_length, max_lines]
calculate_dimensions_from_ascii(ascii_frames) ==
  IF ascii_frames = <<>> THEN Err("Config")
  ELSE dimensions_of(
         max_or({ calculate_line_character_count(line) :
                    line \in lines_of(ascii_frames) }, 80),
         max_or({ Len(ascii_frames[f]) : f \in 1..Len(ascii_frames) }, 24))

\* calculate_render_scale_and_dimensions: <<width, height>>, both u32; the
\* scale is the font size in either case
calculate_render_scale_and_dimensions(dimensions, options, target_dimensions) ==
  IF target_dimensions # None THEN target_dimensions[1]
  ELSE
    LET char_width ==
          trunc_as_u32(f32_mul(options.font_size, DEFAULT_CHAR_WIDTH_RATIO))
        line_height ==
          trunc_as_u32(f32_mul(options.font_size,
                               options.line_height_multiplier))
    IN  << dimensions.max_line_length * char_width,
           dimensions.max_lines * line_height + DEFAULT_PADDING >>

\* the strings of the calls
texts_of(calls) == { calls[c].text : c \in 1..Len(calls) }

\* the body of the loop over the lines: the strings handed to draw_text_mut
\* for a line
render_line(line, options) ==
  IF options.colored /\ contains(line, ESC)
    THEN texts_of(render_colored_line_to_image(line, options.text_color))
    ELSE { line }

\* render_ascii_to_image and render_ascii_to_image_colored: the strings
\* handed to draw_text_mut, for the lines whose y is above the last line's
\* room at the bottom of the canvas
render_ascii_to_image(ascii_frame, width, height, options) ==
  UNION { render_line(ascii_frame[line_idx + 1], options) :
            line_idx \in
              { i \in 0..(Len(ascii_frame) - 1) :
                  trunc_as_u32(f32_mul(as_f32(i), options.font_size))
                    < saturating_sub(height,
                                     trunc_as_u32(options.font_size)) } }

\* the arguments of the call, nothing done yet
WriterStart(ascii_frames, frame_delays, options, target_dimensions, font) ==
  [ pc |-> "start", ascii_frames |-> ascii_frames,
    frame_delays |-> frame_delays, options |-> options,
    target_dimensions |-> target_dimensions, font |-> font,
    checked |-> None, canvas |-> None, file_created |-> FALSE,
    encoder |-> None, painted |-> {},
    results |-> [ k \in 0..(Len(ascii_frames) - 1) |-> None ],
    written |-> <<>>, out |-> None ]

\* "@", "@" and a tab, "x@", two coloured rows of image_to_colored_ascii (one
\* cell; two cells of two colours) and the empty line
LineSamples ==
  { <<64>>, <<64, 9>>, <<120, 64>>,
    sgr_foreground(255, 255, 255) \o <<64>> \o sgr_reset,
    sgr_foreground(255, 0, 0) \o <<64>> \o sgr_foreground(0, 0, 255)
      \o <<120>> \o sgr_reset,
    <<>> }

\* frames of one line, and a frame of two lines
FrameSamples ==
  { <<line>> : line \in LineSamples } \cup { << <<64>>, <<120>> >> }

\* the embedded font with and without 'x', and with and without a glyph the
\* cmap gives the tab
FontSamples ==
  { ({32, 48, 64, 91, 109} \cup more) : more \in SUBSET {9, 120} }

\* the default options, in colour or not, and a font size of 0
OptionSamples ==
  { [ font_size |-> F32(font_size, 1), line_height_multiplier |-> F32(1, 1),
      text_color |-> <<255, 255, 255>>, colored |-> colored ] :
      font_size \in {0, 14}, colored \in BOOLEAN }

\* no target, and targets of no width, of one line's height, and of widths
\* of 2^16 and 2^16 + 8
TargetSamples ==
  { None, Some(<<0, 34>>), Some(<<8, 20>>), Some(<<U16Max + 1, 34>>),
    Some(<<U16Max + 9, 34>>) }

InitWriter ==
  /\ IdleProgram
  /\ eval = NoEval
  /\ conv = NoBatch
  /\ \E ascii_frames \in SeqsUpTo(FrameSamples, MaxFrames),
        frame_delays \in { <<>>, <<100>> }, options \in OptionSamples,
        target_dimensions \in TargetSamples, font \in FontSamples :
       gif = WriterStart(ascii_frames, frame_delays, options,
                         target_dimensions, font)

\* the call with its result
returned(job, out) == [job EXCEPT !.pc = "returned", !.out = Some(out)]

\* the target's check and the canvas's check; the call goes on with the
\* canvas
check_canvas(job, canvas) ==
  IF job.target_dimensions # None
       /\ (job.target_dimensions[1][1] = 0
             \/ job.target_dimensions[1][2] = 0)
    THEN returned(job, Err("InvalidDimensions"))
  ELSE IF canvas[1] = 0 \/ canvas[2] = 0
    THEN returned(job, Err("InvalidDimensions"))
  ELSE [job EXCEPT !.pc = "create", !.canvas = Some(canvas)]

\* calculate_dimensions_from_ascii(..)? and what follows it
check_dimensions(job, dimensions) ==
  IF dimensions.kind # "Ok" THEN returned(job, dimensions)
  ELSE check_canvas(job,
                    calculate_render_scale_and_dimensions(
                      dimensions.value, job.options,
                      job.target_dimensions))

\* validate_font_charset_support(..)? and what follows it
check_support(job, support) ==
  IF support.result.kind # "Ok"
    THEN returned([job EXCEPT !.checked = Some(support.checked)],
                  support.result)
    ELSE check_dimensions([job EXCEPT !.checked = Some(support.checked)],
                          calculate_dimensions_from_ascii(job.ascii_frames))

\* options.validate()? and the two empty checks, and what follows them
check_options(job, valid) ==
  IF valid.kind # "Ok" THEN returned(job, valid)
  ELSE IF job.ascii_frames = <<>> THEN returned(job, Err("Config"))
  ELSE IF job.frame_delays = <<>> THEN returned(job, Err("Config"))
  ELSE check_support(job,
                     validate_font_charset_support(job.ascii_frames,
                                                   job.font))

\* options.validate()?, the two empty checks, the font (embedded, it loads),
\* validate_font_charset_support?, calculate_dimensions_from_ascii?, the
\* target's check, calculate_render_scale_and_dimensions, the canvas's check
WriterChecks ==
  /\ gif.pc = "start"
  /\ gif' = check_options(gif, options_validate(gif.options))
  /\ UNCHANGED <<othervars, eval, conv>>

\* File::create(output_path)?
WriterCreate ==
  /\ gif.pc = "create"
  /\ \E io \in IoResults :
       gif' = IF io = "ok"
                THEN [gif EXCEPT !.pc = "encoder", !.file_created = TRUE]
                ELSE [gif EXCEPT !.pc = "returned", !.out = Some(Err("Io"))]
  /\ UNCHANGED <<othervars, eval, conv>>

\* the palette, the cache, Encoder::new(file, width as u16, height as u16,
\* &palette)?, which writes the screen descriptor, and set_repeat?
WriterEncoder ==
  /\ gif.pc = "encoder"
  /\ \E io \in IoResults :
       gif' = IF io = "ok"
                THEN [gif EXCEPT
                        !.pc = "render",
                        !.encoder = Some(<<as_u16(gif.canvas[1][1]),
                                           as_u16(gif.canvas[1][2])>>)]
                ELSE [gif EXCEPT !.pc = "returned",
                                 !.out = Some(Err("GifDecode"))]
  /\ UNCHANGED <<othervars, eval, conv>>

\* a worker finishes frame k: render_ascii_to_image paints the frame's lines
\* on a canvas of width x height, quantize_image gives an index for every
\* pixel of it
WriterRenderFrame(k) ==
  /\ gif.pc = "render"
  /\ k \in 0..(Len(gif.ascii_frames) - 1)
  /\ gif.results[k] = None
  /\ LET texts == render_ascii_to_image(gif.ascii_frames[k + 1],
                                        gif.canvas[1][1], gif.canvas[1][2],
                                        gif.options)
     IN  gif' = [gif EXCEPT
                   !.painted = @ \cup UNION { Range(text) : text \in texts },
                   !.results[k] =
                      Some(Ok(gif.canvas[1][1] * gif.canvas[1][2]))]
  /\ UNCHANGED <<othervars, eval, conv>>

\* let rendered_frames = frame_results?: no frame fails on a canvas that has
\* a width and a height
WriterCollect ==
  /\ gif.pc = "render"
  /\ \A k \in 0..(Len(gif.ascii_frames) - 1) : gif.results[k] # None
  /\ gif' = [gif EXCEPT !.pc = "write"]
  /\ UNCHANGED <<othervars, eval, conv>>

\* one turn of the write loop: the check of the data's length against
\* width * height, Frame::from_palette_pixels(width as u16, height as u16,
\* &indexed_data, ..), encoder.write_frame(&frame)?.  Given a width and a
\* height whose product is not the data's length, the container's library
\* either refuses them by a panic or takes them: both are followed.
WriterWriteFrame ==
  /\ gif.pc = "write"
  /\ Len(gif.written) < Len(gif.ascii_frames)
  /\ LET indexed_data == gif.results[Len(gif.written)][1].value
         width == as_u16(gif.canvas[1][1])
         height == as_u16(gif.canvas[1][2])
     IN  \E io \in IoResults, library \in {"refuses", "takes"} :
           gif' =
             IF indexed_data # gif.canvas[1][1] * gif.canvas[1][2]
               THEN [gif EXCEPT !.pc = "returned",
                                !.out = Some(Err("GifDecode"))]
             ELSE IF width * height # indexed_data /\ library = "refuses"
               THEN [gif EXCEPT !.pc = "returned", !.out = Some(Panic)]
             ELSE IF io = "ok"
               THEN [gif EXCEPT
                       !.written =
                          Append(@, [ width |-> width, height |-> height,
                                      indexed_data |-> indexed_data ])]
               ELSE [gif EXCEPT !.pc = "returned",
                                !.out = Some(Err("GifDecode"))]
  /\ UNCHANGED <<othervars, eval, conv>>

\* the write loop is through: Ok(())
WriterFinish ==
  /\ gif.pc = "write"
  /\ Len(gif.written) = Len(gif.ascii_frames)
  /\ gif' = [gif EXCEPT !.pc = "returned", !.out = Some(Ok(<<>>))]
  /\ UNCHANGED <<othervars, eval, conv>>

NextWriter ==
  \/ WriterChecks
  \/ WriterCreate
  \/ WriterEncoder
  \/ \E k \in 0..(MaxFrames - 1) : WriterRenderFrame(k)
  \/ WriterCollect
  \/ WriterWriteFrame
  \/ WriterFinish

SpecWriter == InitWriter /\ [][NextWriter]_vars

(***************************************************************************)
(* The frame manager's claims, under SpecFM.                               *)
(***************************************************************************)
\* The (width, height) handed to the rasterizer for terminal dimensions d
\* that leave room for a picture.
TargetFor(d) == TerminalDimensions(d.width - 2, d.height - 4)

\* C1: update_dimensions(new) with new different from the current dimensions
\* sets current := new, empties the cache and returns true; with new equal to
\* the current dimensions it returns false and leaves the manager as it was.
\* Hence the dimensions of two updates in a row that carry the same value are
\* rendered at most once, whatever get_frames calls surround them.
C1_UpdateDimensions ==
  /\ call.op = "update_dimensions" =>
       LET b == call.before[1]
       IN  /\ call.arg # b.current_dimensions =>
                 /\ fm.current_dimensions = call.arg
                 /\ fm.cached_frames = None
                 /\ call.ret = TRUE
           /\ call.arg = b.current_dimensions =>
                 /\ call.ret = FALSE
                 /\ fm = b
  /\ call.regens <= 1

\* C1's case: a second update with the same dimensions, after the frames for
\* them were rendered, answered false.
C1_Witness ==
  /\ call.op = "update_dimensions"
  /\ call.same_twice
  /\ call.regens = 1
  /\ fm.cached_frames # None

\* C2: a non-empty cache holds frames rendered for the current dimensions
\* (width - 2, height - 4), after any calls, failed ones included, and what
\* get_frames returns is rendered for the current dimensions.
C2_CacheIsCurrent ==
  /\ fm.cached_frames # None =>
       fm.cached_frames = Some(TargetFor(fm.current_dimensions))
  /\ (call.op = "get_frames" /\ call.err = "none") =>
       call.frames = Some(TargetFor(fm.current_dimensions))

\* C2's case: get_frames answered after a change of dimensions dropped frames
\* rendered earlier.
C2_Witness ==
  /\ call.op = "get_frames"
  /\ call.err = "none"
  /\ call.discarded

\* C3: get_frames renders only when the cache is empty and otherwise returns
\* the cached frames as they are; rendering with width - 2 = 0 or
\* height - 4 = 0 (saturating) fails with the terminal-too-small error,
\* renders nothing and leaves cache and dimensions as they were, and
\* get_frames on dimensions with room succeeds whenever the rasterizer
\* accepts the frames, also after such a failure.
C3_GetFrames ==
  call.op = "get_frames" =>
    LET b == call.before[1]
        small == \/ b.current_dimensions.width <= 2
                 \/ b.current_dimensions.height <= 4
    IN  /\ b.cached_frames # None =>
              /\ call.err = "none"
              /\ call.rendered = 0
              /\ call.frames = b.cached_frames
              /\ fm = b
        /\ (b.cached_frames = None /\ small) =>
              /\ call.err = "Terminal"
              /\ call.rendered = 0
              /\ call.frames = None
              /\ fm = b
        /\ (b.cached_frames = None /\ ~small
              /\ b.config_template = "valid") =>
              /\ call.err = "none"
              /\ call.rendered = 1
              /\ fm.current_dimensions = b.current_dimensions
              /\ fm.cached_frames = call.frames
              /\ call.frames # None

\* C3's case: get_frames succeeded by rendering after an earlier get_frames
\* had failed with the terminal-too-small error.
C3_Witness ==
  /\ call.op = "get_frames"
  /\ call.after_small
  /\ call.err = "none"
  /\ call.rendered = 1

C5_CursorRestored ==
  /\ painted # None => ~painted[1].after_quit
  /\ (pc \in {"returned", "finished"} /\ hist.hidden) => cursor = "visible"

\* C6: the loop is left because its budget is used up only when loop_count is
\* not 0; and when it is left so without having taken a resize, the frames
\* were painted in sequence (index order, iteration after iteration) up to
\* the last frame of iteration loop_count - 1, the loop is at its exit or
\* the function has returned, and loop_count iterations were counted.
C6_LoopBudget ==
  hist.exit_by = "budget" =>
    /\ args.loop_count > 0
    /\ current_iteration = args.loop_count
    /\ pc \in {"r_exit", "p_exit", "returned", "finished"}
    /\ ~hist.quit_read
    /\ ~hist.resize_seen =>
         /\ hist.in_order
         /\ painted # None
         /\ painted[1].iter = args.loop_count - 1
         /\ painted[1].idx = args.frames - 1

\* C6's case: a watched responsive playback of two frames with loop_count 2
\* has returned Ok after its budget was used up, no resize taken.
C6_Witness ==
  /\ hist.exit_by = "budget"
  /\ ~hist.resize_seen
  /\ args.mode = "responsive"
  /\ args.loop_count = 2
  /\ args.frames = 2
  /\ pc = "finished"
  /\ result = "Ok"

\* C7: when the key poll has just read a pause key, the loop (plain or
\* responsive) is Paused: it waits for a further key, at the frame it had
\* painted.
C7_PauseKey ==
  hist.pause_read =>
    /\ pc = "p_paused"
    /\ painted # None
    /\ painted[1].idx = frame_idx
    /\ painted[1].iter = current_iteration

\* C8: the loop's receiver has a change to take exactly when something was
\* published since it last took one, however many publishings that were,
\* and the dimensions the loop borrows, and hands to update_dimensions, are
\* the value published last.
C8_LatestValue ==
  /\ chan.rx_alive => (watch_changed_ready(chan) <=> hist.unseen > 0)
  /\ hist.read # None =>
       /\ hist.read[1].value = hist.read[1].latest
       /\ fm.current_dimensions = hist.read[1].value

\* C8's case: the loop borrowed after taking one change that stood for two
\* publishings.
C8_Witness ==
  /\ hist.read # None
  /\ hist.read[1].taken >= 2

\* C26: in the responsive playback a frame painted while no resize has
\* restarted the iteration is the one next in sequence after the frame
\* painted before it (the first frame of all, the next frame of the same
\* iteration, or the first frame of the next iteration after the last frame):
\* no frame is left out, and none is left out because a notification carried
\* the dimensions the manager already had.
C26_NoFrameSkipped ==
  [][(/\ args.mode = "responsive"
      /\ painted' # painted
      /\ painted' # None
      /\ painted'[1].resumed = None)
       => IF painted = None
            THEN painted'[1].iter = 0 /\ painted'[1].idx = 0
            ELSE \/ /\ painted'[1].iter = painted[1].iter
                    /\ painted'[1].idx = painted[1].idx + 1
                 \/ /\ painted'[1].iter = painted[1].iter + 1
                    /\ painted'[1].idx = 0
                    /\ painted[1].idx = args.frames - 1]_vars

\* the polling thread of the watched playback has read the terminal's present
\* size and the loop has no notification left to take: nothing more will
\* reach the frame manager unless the terminal is resized again
CaughtUp ==
  /\ pc \in {"r_outer", "r_for", "r_poll"}
  /\ ~watch_changed_ready(chan)
  /\ watcher.stop_tx # None
  /\ thr[watcher.stop_tx[1]].pc \in {"check_stop", "poll"}
  /\ thr[watcher.stop_tx[1]].last_dimensions = term

\* C28: in the watched playback, once the terminal's size has stopped
\* changing and the thread and the loop have caught up with it, the frame
\* manager holds the terminal's size, whatever happened between the three
\* size reads at start-up.
C28_NoResizeMissed ==
  <>[](CaughtUp => fm.current_dimensions = term)

(***************************************************************************)
(* The watcher's claims, under SpecWatcher and FairSpecWatcher.            *)
(***************************************************************************)
\* C9: a polling thread publishes a size only when it differs from the size
\* of its previous successful poll, what it publishes is the size it read,
\* and a size read that fails publishes nothing and does not end the thread:
\* a thread ends only through a stop message or a send that finds no
\* receiver left.
C9_PublishOnlyOnChange ==
  [][\A k \in Threads :
       thr'[k] # thr[k] =>
         /\ chan'.version # chan.version =>
              /\ chan'.value = term
              /\ chan'.value # thr[k].last_dimensions
              /\ thr'[k].last_dimensions = chan'.value
         /\ (thr'[k].last_dimensions # thr[k].last_dimensions
               /\ ~Ended(thr'[k])) =>
              thr'[k].last_dimensions = term
         /\ thr'[k].pc # "read_failed"]_vars

\* C10: once stop() was called on the watcher, or the watcher dropped, the
\* thread it had started (the one whose stop channel it held) ends, whether
\* the terminal is resized again or not.
C10_StoppedThreadEnds ==
  <>[](\A k \in Threads : k \in hist.stop_called => Ended(thr[k]))

\* C10's case: a thread that stop() reached has left its loop; the terminal
\* was never resized, so nothing but the stop message can have ended it.
C10_Witness ==
  \E k \in Threads :
    /\ k \in hist.stop_called
    /\ thr[k].pc = "done"
    /\ resizes = 0

\* C27: once the watcher was stopped or dropped and not started again, every
\* thread start_watching had spawned ends, however often start_watching was
\* called; and at no time has a watcher more than one polling thread alive.
C27_NoThreadLeftPolling ==
  /\ [](Cardinality({ k \in Threads :
                        thr[k].pc \in {"init", "check_stop", "poll"} }) <= 1)
  /\ <>[]((watcher.stop_tx = None /\ hist.stop_called # {})
            => \A k \in Threads : thr[k].pc = "unborn" \/ Ended(thr[k]))

(***************************************************************************)
(* The library's claims, under SpecLib.                                    *)
(***************************************************************************)
\* the delay the frame at index i is meant to get
ResolvedDelay(frame_delays, i) ==
  IF i < Len(frame_delays) THEN frame_delays[i + 1]
  ELSE IF Len(frame_delays) # 0 THEN frame_delays[1]
  ELSE 100

\* C11: for every frame index of a non-empty frame sequence, playing or
\* encoding it resolves a delay without an error and without reading past the
\* end of the delay list: the frame's own delay, else the first delay of the
\* list, else 100 ms (a resolved delay of 0 may be played as the default
\* 100 ms).
C11_DelayResolution ==
  eval.fn = "delay" =>
    /\ eval.out.kind = "Ok"
    /\ LET d == ResolvedDelay(eval.frame_delays, eval.frame_idx)
       IN  \/ eval.out.value = d
           \/ d = 0 /\ eval.out.value = 100

\* C12: the delay decode_gif gives a frame is at least 1 ms: 100 ms for a
\* source delay of 0, and exactly 10 * d ms for every source delay d in
\* 1..65535 hundredths of a second.
C12_DecodedDelay ==
  eval.fn = "decode_delay" =>
    /\ eval.out.kind = "Ok"
    /\ eval.out.value >= 1
    /\ eval.delay = 0 => eval.out.value = 100
    /\ eval.delay # 0 => eval.out.value = 10 * eval.delay

\* the larger of two numbers
Max(a, b) == IF a >= b THEN a ELSE b

\* C16: on a config that validate accepts, in each of the five resolution
\* modes and with aspect preservation on or off, calculate_target_dimensions
\* gives a source with a width or height of 0 the InvalidDimensions error and
\* every other source a grid at least 1 wide and 1 high.
C16_TargetNeverZero ==
  eval.fn = "calculate_target_dimensions" =>
    IF eval.img_width = 0 \/ eval.img_height = 0
      THEN eval.out = Err("InvalidDimensions")
      ELSE /\ eval.out.kind = "Ok"
           /\ eval.out.value[1] >= 1
           /\ eval.out.value[2] >= 1

\* C16's case: a grid side that truncation alone would have made 0 came
\* out as 1.
C16_Witness ==
  /\ eval.fn = "calculate_target_dimensions"
  /\ eval.out.kind = "Ok"
  /\ LET raw == calculate_target_dimensions_unclamped(
                  eval.img_width, eval.img_height, eval.config).value
     IN  /\ raw[2] = 0
         /\ eval.out.value[2] = 1
         /\ eval.config.scale_factor = None
         /\ eval.config.width # None

\* C17: with a scale factor set the grid is (max(1, floor(source_width *
\* scale)), max(1, floor(source_height * scale / char_aspect))) whatever width
\* and height the config carries; without one, and with both width and height
\* set, the grid is that width and height.
C17_FirstMatchingRule ==
  (/\ eval.fn = "calculate_target_dimensions"
   /\ eval.img_width > 0
   /\ eval.img_height > 0) =>
    LET c == eval.config
    IN  /\ c.scale_factor # None =>
             LET sf == c.scale_factor[1]
             IN  eval.out =
                   Ok(<<Max(1, (eval.img_width * sf.n) \div sf.d),
                        Max(1, (eval.img_height * sf.n * c.char_aspect.d)
                                 \div (sf.d * c.char_aspect.n))>>)
        /\ (c.scale_factor = None /\ c.width # None /\ c.height # None) =>
             eval.out = Ok(<<c.width[1], c.height[1]>>)

\* C17's case: a config with a scale factor, a width and a height gave a grid
\* that is not that width and height.
C17_Witness ==
  /\ eval.fn = "calculate_target_dimensions"
  /\ eval.config.scale_factor # None
  /\ eval.config.width # None
  /\ eval.config.height # None
  /\ eval.out.kind = "Ok"
  /\ eval.out.value # <<eval.config.width[1], eval.config.height[1]>>

\* a ramp in which no glyph comes twice
Deduplicated(chars) ==
  \A i, j \in 1..Len(chars) : chars[i] = chars[j] => i = j

\* the configs the rasterizers are to reject
InvalidConfig(config) ==
  \/ config.width = Some(0)
  \/ config.height = Some(0)
  \/ config.char_aspect.n <= 0
  \/ config.scale_factor # None /\ config.scale_factor[1].n <= 0
  \/ /\ config.custom_charset # None
     /\ \/ Len(config.custom_charset[1]) < 2
        \/ Len(config.custom_charset[1]) > 256
        \/ ~Deduplicated(config.custom_charset[1])

\* C15: image_to_ascii and image_to_colored_ascii return an error, and no
\* rows, on a config with a width or height of 0, a character aspect or a
\* scale factor of at most 0, or a custom ramp of fewer than 2 glyphs, more
\* than 256 glyphs or a glyph that comes twice; so that every ramp rows are
\* rendered with is deduplicated and has between 2 and 256 glyphs.
C15_InvalidConfigRejected ==
  eval.fn = "image_to_ascii" =>
    /\ InvalidConfig(eval.config) => eval.out.kind = "Err"
    /\ eval.chars # None =>
         /\ Deduplicated(eval.chars[1])
         /\ Len(eval.chars[1]) >= 2
         /\ Len(eval.chars[1]) <= 256

\* the cells of a line: a glyph, or an escape sequence up to its 'm' and the
\* glyph after it; the reset at the end of a line is no cell
RECURSIVE Cells(_)
Cells(line) ==
  IF line = <<>> \/ line = <<27, 91, 48, 109>> THEN <<>>
  ELSE IF line[1] = 27
    THEN LET m == CHOOSE k \in 1..Len(line) :
                    line[k] = 109 /\ \A j \in 1..(k - 1) : line[j] # 109
         IN  <<SubSeq(line, 1, m + 1)>>
               \o Cells(SubSeq(line, m + 2, Len(line)))
    ELSE <<SubSeq(line, 1, 1)>> \o Cells(Tail(line))

\* C18: in the rows of image_to_ascii and of image_to_colored_ascii, the
\* cell of a sampled pixel whose alpha is 0 is the space glyph alone, with
\* no colour in front of it, whatever the ramp and whether or not brightness
\* is inverted.
C18_TransparentIsSpace ==
  (eval.fn = "image_to_ascii" /\ eval.out.kind = "Ok") =>
    \A y \in 1..Len(eval.out.value) :
      LET cells == Cells(eval.out.value[y])
      IN  \A x \in 1..Len(cells) :
            LET pixel ==
                  eval.image.px[<<sample(x - 1, Len(cells),
                                         eval.image.width),
                                  sample(y - 1, Len(eval.out.value),
                                         eval.image.height)>>]
            IN  pixel[4] = 0 => cells[x] = <<32>>

\* coloured rows, brightness inverted, of a white pixel with an alpha of 0
\* beside an opaque one, rendered with a ramp that has no space in it
C18_Witness ==
  /\ eval.fn = "image_to_ascii"
  /\ eval.out.kind = "Ok"
  /\ eval.colored
  /\ eval.config.invert
  /\ eval.config.custom_charset = Some(LongCharset(256))
  /\ eval.image.width = 2
  /\ eval.image.px[<<0, 0>>] = <<255, 255, 255, 0>>
  /\ eval.image.px[<<1, 0>>] = <<255, 255, 255, 255>>
  /\ Len(Cells(eval.out.value[1])) = 2

\* the brightness of a pixel in units of 1/255000
Raw(pixel) == 299 * pixel[1] + 587 * pixel[2] + 114 * pixel[3]

\* i is round(brightness * (n - 1)) for the brightness raw / 255000:
\* i <= brightness * (n - 1) + 1/2 < i + 1
Rounds(i, raw, n) ==
  /\ 2 * i * 255000 <= 2 * raw * (n - 1) + 255000
  /\ 2 * raw * (n - 1) + 255000 < 2 * (i + 1) * 255000

\* C19: the glyph index of an opaque pixel is round(brightness * (n - 1)),
\* with brightness the raw brightness, or 1 minus it when invert is set, and
\* n the ramp's length; it lies in 0..n-1; and of two pixels the one of the
\* greater raw brightness has the greater or equal index when invert is not
\* set, the smaller or equal index when it is.
C19_IndexRoundedAndMonotone ==
  eval.fn = "char_index" =>
    LET n == eval.chars_len
        Effective(pixel) ==
          IF eval.invert THEN 255000 - Raw(pixel) ELSE Raw(pixel)
    IN  /\ Rounds(eval.out[1], Effective(eval.p), n)
        /\ Rounds(eval.out[2], Effective(eval.q), n)
        /\ eval.out[1] \in 0..(n - 1)
        /\ eval.out[2] \in 0..(n - 1)
        /\ Raw(eval.p) <= Raw(eval.q) =>
             IF eval.invert THEN eval.out[1] >= eval.out[2]
             ELSE eval.out[1] <= eval.out[2]

\* with invert set, a darker and a brighter pixel whose indices differ and
\* are neither the first nor the last of the ramp, the darker pixel's
\* brightness times n - 1 having a fraction over a half
C19_Witness ==
  /\ eval.fn = "char_index"
  /\ eval.invert
  /\ Raw(eval.p) < Raw(eval.q)
  /\ eval.out[1] > eval.out[2]
  /\ eval.out[2] > 0
  /\ eval.out[1] < eval.chars_len - 1
  /\ eval.out[1] * 255000 > (255000 - Raw(eval.p)) * (eval.chars_len - 1)

\* the scenario: a 10 by 10 image of opaque black, the ramp of ' ' and '@',
\* a width of 10 with the aspect ratio preserved, a character aspect of 0.5,
\* brightness not inverted
Scenario ==
  /\ eval.fn = "image_to_ascii"
  /\ ~eval.colored
  /\ eval.image = Uniform(10, 10, <<0, 0, 0, 255>>)
  /\ eval.config.width = Some(10)
  /\ eval.config.height = None
  /\ eval.config.scale_factor = None
  /\ eval.config.preserve_aspect_ratio
  /\ eval.config.char_aspect = F32(1, 2)
  /\ ~eval.config.invert
  /\ eval.config.custom_charset = Some(<<32, 64>>)

\* C20 as stated: in the scenario image_to_ascii returns 20 rows of 10
\* columns in which every cell is '@'.
C20_EveryCellAt ==
  Scenario =>
    eval.out = Ok([ y \in 1..20 |-> [ x \in 1..10 |-> 64 ] ])

\* C20, amended: in the scenario image_to_ascii returns 20 rows of 10
\* columns in which every cell is ' ', the glyph at index 0 of the ramp.
C20_EveryCellSpace ==
  Scenario =>
    eval.out = Ok([ y \in 1..20 |-> [ x \in 1..10 |-> 32 ] ])

C20_Witness ==
  /\ Scenario
  /\ eval.out.kind = "Ok"
  /\ Len(eval.out.value) = 20

\* the i-th entry of a palette, i from 0
Entry(palette, i) ==
  <<palette[3 * i + 1], palette[3 * i + 2], palette[3 * i + 3]>>

\* the squared distance of two colours
Dist2(a, b) ==
  (a[1] - b[1]) * (a[1] - b[1]) + (a[2] - b[2]) * (a[2] - b[2])
    + (a[3] - b[3]) * (a[3] - b[3])

\* C21: the index find_closest_color returns is that of an entry at the
\* least squared distance from the input; for an input that is an entry of
\* the palette the answer comes from the cache and the entry returned equals
\* the input; for any other input the index is the lowest of those at the
\* least distance.
C21_ClosestColor ==
  eval.fn = "quantize" =>
    LET n == Len(eval.palette) \div 3
        d(i) == Dist2(Entry(eval.palette, i), eval.rgb)
    IN  /\ eval.out \in 0..(n - 1)
        /\ \A i \in 0..(n - 1) : d(eval.out) <= d(i)
        /\ eval.cached <=> \E i \in 0..(n - 1) : d(i) = 0
        /\ eval.cached => Entry(eval.palette, eval.out) = eval.rgb
        /\ ~eval.cached => \A i \in 0..(eval.out - 1) : d(i) > d(eval.out)

\* an input halfway between two entries of the palette from black to white,
\* answered with the lower index
C21_Witness ==
  /\ eval.fn = "quantize"
  /\ ~eval.colored
  /\ ~eval.cached
  /\ eval.out > 0
  /\ \E i \in (eval.out + 1)..255 :
       /\ Entry(eval.palette, i) # Entry(eval.palette, eval.out)
       /\ Dist2(Entry(eval.palette, i), eval.rgb)
            = Dist2(Entry(eval.palette, eval.out), eval.rgb)

\* the builders: a palette has 256 entries; entry 0 is the background;
\* the monochrome palette has the text colour at entry 1, at entries 2..32
\* the colours between background and text at the ratios i/32, i = 1..31,
\* each channel cut to a whole number, and the background in every entry
\* after them; the colour palette has the background in every entry after
\* its 209 built ones.
PaletteShape ==
  eval.fn \in {"palette", "quantize"} =>
    /\ Len(eval.palette) = 3 * 256
    /\ Entry(eval.palette, 0) = eval.bg_color
    /\ ~eval.colored =>
         /\ Entry(eval.palette, 1) = eval.text_color
         /\ \A i \in 1..31 :
              \A k \in 1..3 :
                LET c == Entry(eval.palette, i + 1)[k]
                    exact == eval.bg_color[k] * (32 - i)
                               + eval.text_color[k] * i
                IN  32 * c <= exact /\ exact < 32 * (c + 1)
         /\ \A i \in 33..255 : Entry(eval.palette, i) = eval.bg_color
    /\ eval.colored =>
         \A i \in 209..255 : Entry(eval.palette, i) = eval.bg_color

\* C22: every palette built has the shape above, and quantizing leaves the
\* palette as it was built.
C22_PaletteBuiltAndKept ==
  /\ []PaletteShape
  /\ [][eval.fn = "palette" => eval'.palette = eval.palette]_vars

\* a monochrome palette from a background to a different text colour, in
\* use for quantizing
C22_Witness ==
  /\ eval.fn = "quantize"
  /\ ~eval.colored
  /\ eval.bg_color = <<10, 10, 10>>
  /\ eval.text_color = <<255, 0, 0>>

\* C29: quantizing the background colour gives index 0, and with the
\* monochrome palette quantizing a text colour other than the background
\* gives index 1.
C29_BackgroundIsIndexZero ==
  eval.fn = "quantize" =>
    /\ eval.rgb = eval.bg_color => eval.out = 0
    /\ (~eval.colored /\ eval.rgb = eval.text_color
          /\ eval.text_color # eval.bg_color) => eval.out = 1

\* the pixel sampled for column x of the row in eval
Sampled(x) ==
  LET target == calculate_target_dimensions(eval.image.width,
                                            eval.image.height,
                                            eval.config).value
  IN  eval.image.px[<<sample(x, target[1], eval.image.width),
                      sample(eval.y, target[2], eval.image.height)>>]

\* C24: a row of image_to_colored_ascii parses back into one coloured
\* character per cell of the grid, in column order: as many characters as the
\* grid is wide, the glyphs those of the row image_to_ascii renders, every
\* opaque cell in the RGB of its pixel, and as many characters as
\* calculate_line_character_count counts.
C24_RowParsesBack ==
  eval.fn = "render_line" =>
    LET target_width ==
          calculate_target_dimensions(eval.image.width, eval.image.height,
                                      eval.config).value[1]
        plain == image_to_ascii(eval.image, eval.config).value[eval.y + 1]
    IN  /\ Len(eval.colored_chars) = target_width
        /\ [ i \in 1..Len(eval.colored_chars) |->
               eval.colored_chars[i].character ] = plain
        /\ \A x \in 0..(target_width - 1) :
             (x < Len(eval.colored_chars) /\ Sampled(x)[4] # 0) =>
               eval.colored_chars[x + 1].color =
                 << Sampled(x)[1], Sampled(x)[2], Sampled(x)[3] >>
        /\ Len(eval.colored_chars) = eval.count

\* the maximal runs of one colour, each <<first, last>>
Runs(colored_chars) ==
  { run \in (1..Len(colored_chars)) \X (1..Len(colored_chars)) :
      /\ run[1] <= run[2]
      /\ \A p \in run[1]..run[2] :
           colored_chars[p].color = colored_chars[run[1]].color
      /\ \/ run[1] = 1
         \/ colored_chars[run[1] - 1].color # colored_chars[run[1]].color
      /\ \/ run[2] = Len(colored_chars)
         \/ colored_chars[run[2] + 1].color # colored_chars[run[2]].color }

\* C25: render_colored_line_to_image makes one paint call for each maximal
\* run of one colour, from left to right; the call paints in the run's colour
\* a string as long as the parsed row, with the run's glyphs at their columns
\* and a space at every other column.  The runs part the row, so every
\* character is in exactly one call.
C25_OneCallPerRun ==
  eval.fn = "render_line" =>
    LET colored_chars == eval.colored_chars
        runs == Runs(colored_chars)
    IN  /\ Len(eval.calls) = Cardinality(runs)
        /\ \A k \in 1..Len(eval.calls) :
             \E run \in runs :
               /\ Cardinality({ r \in runs : r[1] < run[1] }) = k - 1
               /\ eval.calls[k].color = colored_chars[run[1]].color
               /\ eval.calls[k].text =
                    [ p \in 1..Len(colored_chars) |->
                        IF p \in run[1]..run[2]
                          THEN colored_chars[p].character
                          ELSE SPACE ]

\* a row of two cells of different colours: two calls, the second one with a
\* space at the first column and its glyphs after it
C25_Witness ==
  /\ eval.fn = "render_line"
  /\ Len(eval.calls) = 2
  /\ eval.calls[1].color # eval.calls[2].color
  /\ eval.calls[1].text[1] # SPACE
  /\ eval.calls[2].text[1] = SPACE
  /\ eval.calls[2].text[2] # SPACE

(***************************************************************************)
(* The batches' claims, under SpecBatch.                                   *)
(***************************************************************************)

\* C13: whatever order the workers finish in, the GIF writer writes the
\* frames in the order of its input: the k-th frame written is the rendering
\* of the k-th input frame, with the delay resolved for index k turned into
\* container units as max(1, delay_ms div 10); and when the call succeeds
\* it has written as many frames as it was given.
C13_WrittenInInputOrder ==
  gif.pc # "idle" =>
    /\ \A j \in 1..Len(gif.written) :
         gif.written[j] =
           [ frame |-> j - 1,
             delay |->
               Max(1, ResolvedDelay(gif.frame_delays, j - 1) \div 10) ]
    /\ (gif.pc = "returned" /\ gif.out = Some(Ok(<<>>)))
         => Len(gif.written) = gif.nframes

\* a successful call whose last frame was finished first, whose frames have
\* different delays, and one of whose delays is below one container unit
C13_Witness ==
  /\ gif.pc = "returned"
  /\ gif.out = Some(Ok(<<>>))
  /\ gif.nframes >= 2
  /\ gif.order[1] = gif.nframes - 1
  /\ gif.written[1].delay = 1
  /\ gif.written[2].delay = 25

\* C14: once a frame has failed in the parallel phase of the GIF writer the
\* call does not reach the write loop: no frame is written, and the call
\* returns an error; and process_ascii_conversion returns an error, and no
\* frames, when the conversion of any of its frames failed.
C14_AllOrNothing ==
  /\ (/\ gif.pc # "idle"
      /\ \E k \in 0..(gif.nframes - 1) :
           gif.results[k] # None /\ gif.results[k][1].kind = "Err")
       => /\ gif.written = <<>>
          /\ gif.pc \in {"render", "returned"}
          /\ gif.pc = "returned" => gif.out[1].kind = "Err"
  /\ (/\ conv.pc = "returned"
      /\ conv.fails # {})
       => conv.out[1].kind = "Err"

\* the writer has returned an error with one frame rendered and another
\* failed, nothing written; or the conversion has returned with one frame
\* converted and another failed
C14_Witness ==
  \/ /\ gif.pc = "returned"
     /\ \E k \in 0..(gif.nframes - 1) :
          gif.results[k] # None /\ gif.results[k][1].kind = "Ok"
     /\ \E k \in 0..(gif.nframes - 1) :
          gif.results[k] # None /\ gif.results[k][1].kind = "Err"
     /\ gif.written = <<>>
  \/ /\ conv.pc = "returned"
     /\ conv.fails # {}
     /\ conv.fails # 0..(conv.nframes - 1)

(***************************************************************************)
(* The GIF writer's claims, under SpecWriter.                              *)
(***************************************************************************)

\* C23: the writer looks up in the font every glyph it is going to paint,
\* before it creates the file and before it paints: what is painted was
\* looked up, a file is created and painting is done only after a look-up
\* that found every glyph, and the error UnsupportedFontCharacters names
\* the glyphs looked up that the font has not, with no file created and
\* nothing painted.
C23_GlyphsCheckedFirst ==
  /\ gif.painted # {} =>
       gif.checked # None /\ gif.painted \subseteq gif.checked[1]
  /\ (gif.file_created \/ gif.painted # {}) =>
       gif.checked # None /\ gif.checked[1] \subseteq gif.font
  /\ (gif.out # None /\ gif.out[1].kind = "Err"
        /\ gif.out[1].err = "UnsupportedFontCharacters") =>
       /\ gif.out[1].characters = sorted(gif.checked[1] \ gif.font)
       /\ ~gif.file_created
       /\ gif.painted = {}

\* C30: the width and height the encoder is created with, and those of every
\* frame written, are the canvas's width and height, each frame holding
\* width * height indices; and the call on a canvas whose width or height is
\* above 65535 ends in an error.
C30_CanvasNotTruncated ==
  /\ gif.encoder # None => gif.encoder[1] = gif.canvas[1]
  /\ \A j \in 1..Len(gif.written) :
       /\ <<gif.written[j].width, gif.written[j].height>> = gif.canvas[1]
       /\ gif.written[j].indexed_data = gif.canvas[1][1] * gif.canvas[1][2]
  /\ (gif.pc = "returned" /\ gif.canvas # None
        /\ (gif.canvas[1][1] > U16Max \/ gif.canvas[1][2] > U16Max)) =>
       gif.out[1].kind = "Err"

====
